---- MODULE Spec2Model ----
(***************************************************************************)
(* State-machine model of dvc/repo/experiments/__init__.py: the experiment *)
(* ledger (a stash), the scheduler Experiments.reproduce with its worker   *)
(* pool, staging (_stash_exp) and the baseline resolver.                   *)
(***************************************************************************)
EXTENDS Integers, Sequences, FiniteSets, TLC

\* ------------------------------------------------------------------ bounds
MaxStash == 3      \* longest ledger considered
MaxJobs == 2       \* largest `jobs` (worker processes) considered
MaxUnits == 2      \* largest working set (batch) considered
MaxRefNames == 2   \* experiment ref names a worker may produce

\* ------------------------------------------------------------- values
None == 0          \* Python's None, for commits, branches and names
HeadRev == 10      \* the commit the workspace is on
OtherRev == 11     \* another commit of the repository
AdHocRev == 12     \* a commit that is no ledger entry
ForeignSha == 20   \* from here on: stash entries of unrelated tooling
OldCommit == 99    \* a commit published by an earlier run

StashShas == 1..MaxStash

\* The commit a worker creates for input rev r, and the hash it reports.
ExpCommit(r) == 100 + r
ExpHash(r) == 200 + r

\* A stash entry as the stash holds it: its sha and the fields its message
\* encodes (foreign: the message does not match STASH_EXPERIMENT_RE).
StashItem(sha) ==
  IF sha >= ForeignSha
  THEN [sha |-> sha, foreign |-> TRUE, rev |-> None, baseline_rev |-> None,
        branch |-> None, name |-> None]
  ELSE [sha |-> sha, foreign |-> FALSE,
        rev |-> IF sha % 2 = 1 THEN HeadRev ELSE OtherRev,
        baseline_rev |-> HeadRev,
        branch |-> IF sha % 2 = 0 THEN 30 + sha ELSE None,
        name |-> IF sha % 3 = 0 THEN 40 + sha ELSE None]

VARIABLES
  stash,        \* the ledger: stash entries, index 0 (the newest) first
  refs,         \* published experiment refs: name -> commit (None: absent)
  handoff,      \* the handoff refs: name -> commit (None: absent)
  pc,           \* where the coordinator is
  idx,          \* loop index of the coordinator's current loop
  exc,          \* the exception reproduce is raising, or "none"
  keep_stash,   \* argument of reproduce
  jobs,         \* argument of reproduce
  stash_revs,   \* reproduce's snapshot of the ledger listing
  stash0,       \* the ledger as it was when reproduce was entered
  to_run,       \* the working set, in dict order
  revs_arg,     \* the revs argument of reproduce (given: not None)
  executors,    \* units whose executor has been constructed
  fut,          \* future state per unit
  out,          \* per unit: how its worker ended and, once harvested,
                \* what future.result() gave
  pid_q,        \* process ids reported and not yet read
  pids,         \* process ids the interrupt handler has read
  reported,     \* units that ever reported a process id
  signalled,    \* units the coordinator sent SIGINT to
  pendingAtInt, \* units not yet started when the interrupt arrived
  interrupted,  \* whether the operator interrupted
  result,       \* _reproduce's result: input rev -> {<<exp_rev, exp_hash>>}
  harvested,    \* units the harvest loop has visited
  cleaned,      \* units whose executor.cleanup() has run
  ret,          \* the mapping reproduce returned
  dropped,      \* the indices reproduce passed to stash.drop, in call order
  spc,          \* where _stash_exp is
  sargs,        \* the arguments of _stash_exp
  ws,           \* the workspace
  workspace,    \* the rev stash_workspace yielded (None: nothing stashed)
  sexc,         \* the exception _stash_exp is raising, or "none"
  hard_reset,   \* whether scm.reset(hard=True) has run in this call
  stash_rev,    \* the value _stash_exp returns
  pfile,        \* the params file: in the workspace, and as stashed
  args_file,    \* the packed-arguments file, and what the pushes recorded
  head,         \* scm.get_rev(): the commit the repository is on
  exec_checkpoint,   \* the EXEC_CHECKPOINT ref (None: absent)
  bl,           \* the last baseline query and what it gave
  msg,          \* a stash message on its way from _stash_msg to stash_revs
  scm_lock,     \* the process that holds the experiments lock (NoProc: free)
  procs,        \* per process: its call of new or reproduce
  dispatched    \* the input revs handed to workers, by any process

schedVars ==
  <<pc, idx, exc, keep_stash, jobs, stash_revs, stash0, to_run, revs_arg,
    executors>>
poolVars == <<fut, out, pid_q, pids, reported, signalled, pendingAtInt,
              interrupted>>
harvVars == <<result, harvested, cleaned, ret, dropped>>
reproVars == <<refs, handoff, schedVars, poolVars, harvVars>>
stageVars ==
  <<spc, sargs, ws, workspace, sexc, hard_reset, stash_rev, pfile,
    args_file>>
lockVars == <<scm_lock, procs, dispatched>>
baseVars == <<head, exec_checkpoint, bl, msg, lockVars>>
vars == <<stash, reproVars, stageVars, baseVars>>

\* ------------------------------------------------------------------ refs
HandoffRefs == {"EXEC_HEAD", "EXEC_MERGE", "EXEC_BASELINE"}
ExpRefNames == 1..MaxRefNames

\* ---------------------------------------------------------------- ledger
\* Mutant of StashRevs: the index counts the matching entries only.
StashRevsListed(s) ==
  LET idxs == {i \in 1..Len(s) : ~s[i].foreign}
      pos(sha) == CHOOSE i \in idxs : s[i].sha = sha
  IN [sha \in {s[i].sha : i \in idxs} |->
        [index |-> Cardinality({j \in idxs : j < pos(sha)}),
         rev |-> s[pos(sha)].rev,
         baseline_rev |-> s[pos(sha)].baseline_rev,
         branch |-> s[pos(sha)].branch, name |-> s[pos(sha)].name]]

\* Experiments.stash_revs: sha -> StashEntry(index, rev, baseline_rev,
\* branch, name) of every entry whose message matches the grammar.
StashRevs(s) ==
  LET idxs == {i \in 1..Len(s) : ~s[i].foreign}
      pos(sha) == CHOOSE i \in idxs : s[i].sha = sha
  IN [sha \in {s[i].sha : i \in idxs} |->
        [index |-> pos(sha) - 1, rev |-> s[pos(sha)].rev,
         baseline_rev |-> s[pos(sha)].baseline_rev,
         branch |-> s[pos(sha)].branch, name |-> s[pos(sha)].name]]

\* Stash.drop(index): the entry at position index (0-based) is removed.
StashDrop(s, index) ==
  IF index + 1 \in 1..Len(s)
  THEN SubSeq(s, 1, index) \o SubSeq(s, index + 2, Len(s))
  ELSE s

Max(S) == CHOOSE x \in S : \A y \in S : y <= x

Min(S) == CHOOSE x \in S : \A y \in S : x <= y

\* Mutant of SortedDesc: the indices are sorted lowest first.
RECURSIVE SortedAsc(_)
SortedAsc(S) ==
  IF S = {} THEN <<>> ELSE <<Min(S)>> \o SortedAsc(S \ {Min(S)})

\* sorted(..., reverse=True)
RECURSIVE SortedDesc(_)
SortedDesc(S) ==
  IF S = {} THEN <<>> ELSE <<Max(S)>> \o SortedDesc(S \ {Max(S)})

\* for index in to_drop: self.stash.drop(index)
RECURSIVE DropAll(_, _)
DropAll(s, drops) ==
  IF drops = <<>> THEN s ELSE DropAll(StashDrop(s, Head(drops)), Tail(drops))

Range(f) == {f[i] : i \in DOMAIN f}

\* A full ledger as staging builds it: experiment entries newest first,
\* with possibly one foreign entry below the newest, or with a foreign
\* entry above and another below them.
RECURSIVE Newest(_)
Newest(k) == IF k = 0 THEN <<>> ELSE <<StashItem(k)>> \o Newest(k - 1)

InsertAt(s, i, e) == SubSeq(s, 1, i) \o <<e>> \o SubSeq(s, i + 1, Len(s))

Ledgers ==
  {Newest(MaxStash),
   InsertAt(Newest(MaxStash - 1), 1, StashItem(ForeignSha)),
   <<StashItem(ForeignSha + 1)>> \o Newest(MaxStash - 2)
     \o <<StashItem(ForeignSha)>>}

\* ------------------------------------------------------------- reproduce
Units == 1..Len(to_run)
Done(u) == fut[u] \in {"finished", "cancelled"}
AllDone == \A u \in Units : Done(u)
InputRevs == {to_run[u].input_rev : u \in Units}
UnitOf(r) == CHOOSE u \in Units : to_run[u].input_rev = r

\* The revs argument: None (every ledger entry) or an explicit list.
RevChoices(s) ==
  LET cand == DOMAIN StashRevs(s) \cup {AdHocRev}
  IN {q \in UNION {[1..n -> cand] : n \in 0..MaxUnits} :
        \A i, j \in DOMAIN q : q[i] = q[j] => i = j}

\* to_run of reproduce: input_rev -> StashEntry, in dict order.  With revs
\* None that is the order of the ledger listing.
ToRunAll(s) ==
  LET sr == StashRevs(s)
      shas == SelectSeq([i \in 1..Len(s) |-> IF s[i].foreign THEN None
                                             ELSE s[i].sha],
                        LAMBDA x : x # None)
  IN [i \in 1..Len(shas) |->
        [input_rev |-> shas[i], index |-> sr[shas[i]].index,
         rev |-> sr[shas[i]].rev, baseline_rev |-> sr[shas[i]].baseline_rev,
         branch |-> sr[shas[i]].branch, name |-> sr[shas[i]].name]]

\* Mutant of ToRunRevs: the revs are not looked up in the ledger listing.
ToRunRevsAdHoc(s, revs) ==
  [i \in 1..Len(revs) |->
     [input_rev |-> revs[i], index |-> None - 1, rev |-> revs[i],
      baseline_rev |-> revs[i], branch |-> None, name |-> None]]

ToRunRevs(s, revs) ==
  LET sr == StashRevs(s)
  IN [i \in 1..Len(revs) |->
        IF revs[i] \in DOMAIN sr
        THEN [input_rev |-> revs[i], index |-> sr[revs[i]].index,
              rev |-> sr[revs[i]].rev,
              baseline_rev |-> sr[revs[i]].baseline_rev,
              branch |-> sr[revs[i]].branch, name |-> sr[revs[i]].name]
        ELSE [input_rev |-> revs[i], index |-> None - 1, rev |-> revs[i],
              baseline_rev |-> revs[i], branch |-> None, name |-> None]]

\* reproduce(revs, keep_stash, jobs) is entered: the ledger is listed and
\* the working set built.
Enter(tr, ra, keep, j) ==
  /\ pc = "idle"
  /\ pc' = "init"
  /\ idx' = 1
  /\ keep_stash' = keep
  /\ jobs' = j
  /\ stash_revs' = StashRevs(stash)
  /\ stash0' = stash
  /\ to_run' = tr
  /\ revs_arg' = ra
  /\ fut' = [u \in 1..Len(tr) |-> "new"]
  /\ out' = [u \in 1..Len(tr) |-> [kind |-> "none", refs |-> {},
                                   force |-> FALSE, checkpoint |-> FALSE]]
  /\ UNCHANGED <<stageVars, baseVars, stash, refs, handoff, exc, executors,
                 pid_q, pids, reported, signalled, pendingAtInt, interrupted,
                 harvVars>>

\* revs=None, and revs given as a list.
RevsNone == [given |-> FALSE, revs |-> <<>>]
RevsGiven(revs) == [given |-> TRUE, revs |-> revs]

CallAll ==
  /\ Len(ToRunAll(stash)) <= MaxUnits
  /\ \E keep \in BOOLEAN, j \in 1..MaxJobs :
       Enter(ToRunAll(stash), RevsNone, keep, j)

CallRevs ==
  \E revs \in RevChoices(stash), keep \in BOOLEAN, j \in 1..MaxJobs :
    Enter(ToRunRevs(stash, revs), RevsGiven(revs), keep, j)

\* The three set_ref calls of one iteration of _init_executors.
SetHandoffRefs(item) ==
  [n \in HandoffRefs |->
     IF n = "EXEC_HEAD" THEN item.rev
     ELSE IF n = "EXEC_MERGE" THEN item.input_rev
     ELSE item.baseline_rev]

\* for ref in (EXEC_HEAD, EXEC_MERGE, EXEC_BASELINE): remove_ref(ref)
RemoveHandoffRefs == [n \in HandoffRefs |-> None]

\* One iteration of the loop of _init_executors: the handoff refs are
\* written and the unit's LocalExecutor is constructed.
InitExecutor ==
  /\ pc = "init"
  /\ idx \in Units
  /\ handoff' = SetHandoffRefs(to_run[idx])
  /\ executors' = executors \cup {idx}
  /\ idx' = idx + 1
  /\ UNCHANGED <<stageVars, baseVars, stash, refs, pc, exc, keep_stash, jobs,
                 stash_revs, stash0, to_run, revs_arg, poolVars, harvVars>>

\* The same iteration when the LocalExecutor constructor raises: nothing
\* in _init_executors or reproduce catches it.
InitExecutorRaises ==
  /\ pc = "init"
  /\ idx \in Units
  /\ handoff' = SetHandoffRefs(to_run[idx])
  /\ pc' = "raised"
  /\ exc' = "ExecutorInitError"
  /\ UNCHANGED <<stageVars, baseVars, stash, refs, idx, keep_stash, jobs,
                 stash_revs, stash0, to_run, revs_arg, executors, poolVars,
                 harvVars>>

\* The end of _init_executors, and the submission of every unit to the
\* process pool; the coordinator then blocks in wait(futures).
SubmitAll ==
  /\ pc = "init"
  /\ idx = Len(to_run) + 1
  /\ handoff' = RemoveHandoffRefs
  /\ fut' = [u \in Units |-> "pending"]
  /\ pc' = "wait"
  /\ UNCHANGED <<stageVars, baseVars, stash, refs, idx, exc, keep_stash, jobs,
                 stash_revs, stash0, to_run, revs_arg, executors, out, pid_q,
                 pids, reported, signalled, pendingAtInt, interrupted,
                 harvVars>>

\* ------------------------------------------------------------ worker pool
\* The scheduler's state of a unit: it is in the working set until
\* workers.submit hands it to the pool, and its future says how it ended.
UnitState(u) ==
  IF fut[u] = "new" THEN "STAGED"
  ELSE IF fut[u] \in {"pending", "running"} THEN "DISPATCHED"
  ELSE IF fut[u] = "cancelled" THEN "CANCELLED"
  ELSE IF out[u].kind = "ok" THEN "SUCCEEDED"
  ELSE "FAILED"

Terminal == {"SUCCEEDED", "FAILED", "CANCELLED"}

PoolOpen == pc \in {"wait", "signal", "harvest", "shutdown"}
Running == {u \in Units : fut[u] = "running"}

\* A pool process takes the next submitted unit (ProcessPoolExecutor with
\* max_workers=jobs runs at most jobs units at a time, in submission order).
Start(u) ==
  /\ PoolOpen
  /\ fut[u] = "pending"
  /\ \A v \in Units : v < u => fut[v] # "pending"
  /\ Cardinality(Running) < jobs
  /\ fut' = [fut EXCEPT ![u] = "running"]
  /\ UNCHANGED <<stageVars, baseVars, stash, refs, handoff, schedVars, out,
                 pid_q, pids, reported, signalled, pendingAtInt, interrupted,
                 harvVars>>

\* executor.reproduce puts (rev, pid) on pid_q when it starts.
ReportPid(u) ==
  /\ fut[u] = "running"
  /\ u \notin reported
  /\ pid_q' = pid_q \cup {u}
  /\ reported' = reported \cup {u}
  /\ UNCHANGED <<stageVars, baseVars, stash, refs, handoff, schedVars, fut,
                 out, pids, signalled, pendingAtInt, interrupted, harvVars>>

\* BRANCH_RE: an experiment ref's name says whether it is a checkpoint
\* experiment's (here: the even names).
IsCheckpointRef(n) == n % 2 = 0

\* What a worker's run can end in: it returns, or it raises
\* CheckpointKilledError or anything else.
OutcomeKinds == {"ok", "failed", "killed"}

\* What future.result() gives for a worker that returned: (exp_hash, force),
\* the worker having committed its experiment under one ref.
Returns ==
  {[kind |-> "ok", refs |-> {n}, force |-> f,
    checkpoint |-> IsCheckpointRef(n)] : n \in ExpRefNames, f \in BOOLEAN}

Finish(u) ==
  /\ fut[u] = "running"
  /\ u \in reported
  /\ \E k \in OutcomeKinds : out' = [out EXCEPT ![u].kind = k]
  /\ fut' = [fut EXCEPT ![u] = "finished"]
  /\ UNCHANGED <<stageVars, baseVars, stash, refs, handoff, schedVars, pid_q,
                 pids, reported, signalled, pendingAtInt, interrupted,
                 harvVars>>

\* wait(futures) returns: every future is done.
WaitReturns ==
  /\ pc = "wait"
  /\ AllDone
  /\ pc' = "harvest"
  /\ idx' = 1
  /\ UNCHANGED <<stageVars, baseVars, stash, refs, handoff, exc, keep_stash,
                 jobs, stash_revs, stash0, to_run, revs_arg, executors,
                 poolVars, harvVars>>

\* KeyboardInterrupt arrives while the coordinator is in wait(futures); the
\* handler first reads every reported pid:
\* while not pid_q.empty(): rev, pid = pid_q.get(); pids[rev] = pid
Interrupt ==
  /\ pc = "wait"
  /\ ~AllDone
  /\ interrupted' = TRUE
  /\ pendingAtInt' = {u \in Units : fut[u] = "pending"}
  /\ pids' = pids \cup pid_q
  /\ pid_q' = {}
  /\ pc' = "signal"
  /\ idx' = 1
  /\ UNCHANGED <<stageVars, baseVars, stash, refs, handoff, exc, keep_stash,
                 jobs, stash_revs, stash0, to_run, revs_arg, executors, fut,
                 out, reported, signalled, harvVars>>

\* One iteration of the handler's loop over futures, on a running future
\* whose pid was read: os.kill(pids[rev], SIGINT).
SignalRunning ==
  /\ pc = "signal"
  /\ idx \in Units
  /\ fut[idx] = "running"
  /\ idx \in pids
  /\ signalled' = signalled \cup {idx}
  /\ idx' = idx + 1
  /\ UNCHANGED <<stageVars, baseVars, stash, refs, handoff, pc, exc,
                 keep_stash, jobs, stash_revs, stash0, to_run, revs_arg,
                 executors, fut, out, pid_q, pids, reported, pendingAtInt,
                 interrupted, harvVars>>

\* The same iteration on a running future whose pid was not read:
\* pids[rev] raises KeyError, which leaves the handler and the with block.
SignalKeyError ==
  /\ pc = "signal"
  /\ idx \in Units
  /\ fut[idx] = "running"
  /\ idx \notin pids
  /\ pc' = "shutdown"
  /\ exc' = "KeyError"
  /\ UNCHANGED <<stageVars, baseVars, stash, refs, handoff, idx, keep_stash,
                 jobs, stash_revs, stash0, to_run, revs_arg, executors,
                 poolVars, harvVars>>

\* Mutant of CancelPending: every future that is not running is cancelled,
\* the finished ones too.
CancelNotRunning ==
  /\ pc = "signal"
  /\ idx \in Units
  /\ fut[idx] # "running"
  /\ fut' = [fut EXCEPT ![idx] = "cancelled"]
  /\ idx' = idx + 1
  /\ UNCHANGED <<stageVars, baseVars, stash, refs, handoff, pc, exc,
                 keep_stash, jobs, stash_revs, stash0, to_run, revs_arg,
                 executors, out, pid_q, pids, reported, signalled,
                 pendingAtInt, interrupted, harvVars>>

\* elif not future.done(): future.cancel()
CancelPending ==
  /\ pc = "signal"
  /\ idx \in Units
  /\ fut[idx] = "pending"
  /\ fut' = [fut EXCEPT ![idx] = "cancelled"]
  /\ idx' = idx + 1
  /\ UNCHANGED <<stageVars, baseVars, stash, refs, handoff, pc, exc,
                 keep_stash, jobs, stash_revs, stash0, to_run, revs_arg,
                 executors, out, pid_q, pids, reported, signalled,
                 pendingAtInt, interrupted, harvVars>>

\* A future that is already done is left alone.
SignalSkipDone ==
  /\ pc = "signal"
  /\ idx \in Units
  /\ Done(idx)
  /\ idx' = idx + 1
  /\ UNCHANGED <<stageVars, baseVars, stash, refs, handoff, pc, exc,
                 keep_stash, jobs, stash_revs, stash0, to_run, revs_arg,
                 executors, poolVars, harvVars>>

\* The handler's loop is over: control falls through to the harvest loop.
SignalEnd ==
  /\ pc = "signal"
  /\ idx = Len(to_run) + 1
  /\ pc' = "harvest"
  /\ idx' = 1
  /\ UNCHANGED <<stageVars, baseVars, stash, refs, handoff, exc, keep_stash,
                 jobs, stash_revs, stash0, to_run, revs_arg, executors,
                 poolVars, harvVars>>

\* ---------------------------------------------------------------- harvest
\* executor.fetch_exps(scm, force, on_diverged): a ref the worker created
\* that exists here on another commit has diverged; without force the
\* callback is called.
Diverged(r, u, o) ==
  {n \in o.refs : r[n] # None /\ r[n] # ExpCommit(to_run[u].input_rev)}

\* The refs after the fetch: each ref the worker created is written.
FetchExps(r, u, o) ==
  [n \in ExpRefNames |->
     IF n \in o.refs THEN ExpCommit(to_run[u].input_rev) ELSE r[n]]

\* Mutant of OnDiverged: the checkpoint flag is ignored.
OnDivergedAsExperiment(checkpoint) == "ExperimentExistsError"

\* on_diverged of _collect_executor: it always raises.
OnDiverged(checkpoint) ==
  IF checkpoint THEN "CheckpointExistsError" ELSE "ExperimentExistsError"

\* _collect_executor's results: {scm.get_ref(ref): exp_hash} over the
\* refs fetch_exps returned (r: the refs after the fetch).
CollectExecutor(r, u, o) ==
  {<<r[n], ExpHash(to_run[u].input_rev)>> : n \in {m \in o.refs : r[m] # None}}

HarvestReady == pc = "harvest" /\ idx \in Units /\ Done(idx)

\* future.exception() of a cancelled future raises CancelledError; the call
\* stands before the try block, so neither its except clause nor its
\* finally clause runs.
HarvestCancelled ==
  /\ HarvestReady
  /\ fut[idx] = "cancelled"
  /\ pc' = "shutdown"
  /\ exc' = "CancelledError"
  /\ UNCHANGED <<stageVars, baseVars, stash, refs, handoff, idx, keep_stash,
                 jobs, stash_revs, stash0, to_run, revs_arg, executors,
                 poolVars, harvVars>>

\* Mutant of HarvestFailed: the worker's exception is raised again instead
\* of being logged.
HarvestFailedRaises ==
  /\ HarvestReady
  /\ fut[idx] = "finished"
  /\ out[idx].kind \in {"failed", "killed"}
  /\ harvested' = harvested \cup {idx}
  /\ cleaned' = cleaned \cup {idx}
  /\ pc' = "shutdown"
  /\ exc' = "WorkerFailure"
  /\ UNCHANGED <<stageVars, baseVars, stash, refs, handoff, idx, keep_stash,
                 jobs, stash_revs, stash0, to_run, revs_arg, executors,
                 poolVars, result, ret, dropped>>

\* The worker raised: the failure is logged (not for CheckpointKilledError)
\* and the loop goes on after executor.cleanup().
HarvestFailed ==
  /\ HarvestReady
  /\ fut[idx] = "finished"
  /\ out[idx].kind \in {"failed", "killed"}
  /\ harvested' = harvested \cup {idx}
  /\ cleaned' = cleaned \cup {idx}
  /\ idx' = idx + 1
  /\ UNCHANGED <<stageVars, baseVars, stash, refs, handoff, pc, exc,
                 keep_stash, jobs, stash_revs, stash0, to_run, revs_arg,
                 executors, poolVars, result, ret, dropped>>

\* The worker returned and its refs are fetched: result[rev].update(...).
HarvestCollect ==
  /\ HarvestReady
  /\ fut[idx] = "finished"
  /\ out[idx].kind = "ok"
  /\ \E o \in Returns :
       /\ o.force \/ Diverged(refs, idx, o) = {}
       /\ out' = [out EXCEPT ![idx] = o]
       /\ refs' = FetchExps(refs, idx, o)
       /\ result' = (to_run[idx].input_rev :> CollectExecutor(refs', idx, o))
                       @@ result
  /\ harvested' = harvested \cup {idx}
  /\ cleaned' = cleaned \cup {idx}
  /\ idx' = idx + 1
  /\ UNCHANGED <<stageVars, baseVars, stash, handoff, pc, exc, keep_stash,
                 jobs, stash_revs, stash0, to_run, revs_arg, executors, fut,
                 pid_q, pids, reported, signalled, pendingAtInt, interrupted,
                 ret, dropped>>

\* The worker returned and one of its refs has diverged, without force:
\* on_diverged raises through _collect_executor; the finally clause runs.
HarvestDiverged ==
  /\ HarvestReady
  /\ fut[idx] = "finished"
  /\ out[idx].kind = "ok"
  /\ \E o \in Returns :
       /\ ~o.force /\ Diverged(refs, idx, o) # {}
       /\ out' = [out EXCEPT ![idx] = o]
       /\ exc' = OnDiverged(o.checkpoint)
  /\ pc' = "shutdown"
  /\ harvested' = harvested \cup {idx}
  /\ cleaned' = cleaned \cup {idx}
  /\ UNCHANGED <<stageVars, baseVars, stash, refs, handoff, idx, keep_stash,
                 jobs, stash_revs, stash0, to_run, revs_arg, executors, fut,
                 pid_q, pids, reported, signalled, pendingAtInt, interrupted,
                 result, ret, dropped>>

\* The harvest loop is over and the with block is left.
HarvestEnd ==
  /\ pc = "harvest"
  /\ idx = Len(to_run) + 1
  /\ pc' = "prune"
  /\ UNCHANGED <<stageVars, baseVars, stash, refs, handoff, idx, exc,
                 keep_stash, jobs, stash_revs, stash0, to_run, revs_arg,
                 executors, poolVars, harvVars>>

\* Mutant of PoolShutdown: the entries of the units harvested so far are
\* dropped on the way out, as in a finally clause, before reproduce raises.
PoolShutdownPrunes ==
  /\ pc = "shutdown"
  /\ AllDone
  /\ pc' = "raised"
  /\ dropped' = SortedDesc({stash_revs[r].index :
                              r \in DOMAIN result \cap DOMAIN stash_revs})
  /\ stash' = DropAll(stash, dropped')
  /\ UNCHANGED <<stageVars, baseVars, refs, handoff, idx, exc, keep_stash,
                 jobs, stash_revs, stash0, to_run, revs_arg, executors,
                 poolVars, result, harvested, cleaned, ret>>

\* Mutant of PoolShutdown: the pool is shut down without waiting
\* (shutdown(wait=False)), and reproduce raises at once.
PoolShutdownNoWait ==
  /\ pc = "shutdown"
  /\ pc' = "raised"
  /\ UNCHANGED <<stageVars, baseVars, stash, refs, handoff, idx, exc,
                 keep_stash, jobs, stash_revs, stash0, to_run, revs_arg,
                 executors, poolVars, harvVars>>

\* An exception leaves the with block: ProcessPoolExecutor.__exit__ waits
\* for every unit that was not cancelled, then reproduce raises.
PoolShutdown ==
  /\ pc = "shutdown"
  /\ AllDone
  /\ pc' = "raised"
  /\ UNCHANGED <<stageVars, baseVars, stash, refs, handoff, idx, exc,
                 keep_stash, jobs, stash_revs, stash0, to_run, revs_arg,
                 executors, poolVars, harvVars>>

\* ------------------------------------------------------------------ prune
\* Mutant of ToDrop: keep_stash is ignored, the whole working set dropped.
ToDropWorkingSet(keep, sr, tr, res) ==
  SortedDesc({sr[tr[u].input_rev].index :
                u \in {v \in DOMAIN tr : tr[v].input_rev \in DOMAIN sr}})

\* Mutant of ToDrop: only the succeeded entries are dropped, also with
\* keep_stash false.
ToDropSucceeded(keep, sr, tr, res) ==
  SortedDesc({sr[r].index : r \in DOMAIN res \cap DOMAIN sr})

\* to_drop of reproduce: the ledger indices to drop, highest first.
ToDrop(keep, sr, tr, res) ==
  IF keep
  THEN SortedDesc({sr[r].index : r \in DOMAIN res \cap DOMAIN sr})
  ELSE SortedDesc({sr[tr[u].input_rev].index :
                     u \in {v \in DOMAIN tr : tr[v].input_rev \in DOMAIN sr}})

\* Mutant of MergeResults: each exp_result replaces the mapping instead of
\* being merged into it, so one unit's results are returned.
MergeResultsOne(res) ==
  IF DOMAIN res = {} THEN {} ELSE res[CHOOSE r \in DOMAIN res : TRUE]

\* result.update(exp_result) for every exp_result of exec_results
MergeResults(res) == UNION {res[r] : r \in DOMAIN res}

\* The end of reproduce: the ledger is pruned and the mapping returned.
PruneAndReturn ==
  /\ pc = "prune"
  /\ dropped' = ToDrop(keep_stash, stash_revs, to_run, result)
  /\ stash' = DropAll(stash, dropped')
  /\ ret' = MergeResults(result)
  /\ pc' = "returned"
  /\ UNCHANGED <<stageVars, baseVars, refs, handoff, idx, exc, keep_stash,
                 jobs, stash_revs, stash0, to_run, revs_arg, executors,
                 poolVars, result, harvested, cleaned>>


\* ------------------------------------------------------------ params file
\* The data of a params file: a mapping from keys to scalars or to nested
\* mappings from keys to scalars.
TopKeys == {"lr", "opt"}
SubKeys == {"a", "b"}
EmptyDict == [k \in {} |-> 0]

Scalar(v) == [kind |-> "scalar", v |-> v, d |-> EmptyDict]
Dict(d) == [kind |-> "dict", v |-> 0, d |-> d]

PartialFuns(K, V) == UNION {[S -> V] : S \in SUBSET K}

\* The files staging finds, and the overrides a caller passes.
OrigFiles ==
  PartialFuns(TopKeys, {Scalar(1), Dict([k \in SubKeys |-> 1])})
ParamOverrides ==
  PartialFuns(TopKeys, {Scalar(2)} \cup
                         {Dict(d) : d \in PartialFuns(SubKeys, {2})
                                            \ {EmptyDict}})
    \ {EmptyDict}

\* Mutant of DeepMerge: dict.update, nested mappings are replaced whole.
ShallowMerge(data, over) ==
  [k \in DOMAIN data \cup DOMAIN over |->
     IF k \in DOMAIN over THEN over[k] ELSE data[k]]

\* benedict(data).merge(over, overwrite=True): nested mappings are merged
\* key by key, anything else is replaced by the override.
DeepMerge(data, over) ==
  [k \in DOMAIN data \cup DOMAIN over |->
     IF k \notin DOMAIN over THEN data[k]
     ELSE IF k \in DOMAIN data /\ data[k].kind = "dict"
                               /\ over[k].kind = "dict"
          THEN Dict([j \in DOMAIN data[k].d \cup DOMAIN over[k].d |->
                       IF j \in DOMAIN over[k].d THEN over[k].d[j]
                       ELSE data[k].d[j]])
          ELSE over[k]]

\* Whether git stash takes the file's new content into the stash commit:
\* it does for a file that was added; for a rewritten file that was not
\* added it may miss the change (mtime decides).
StashSees(f, staged) ==
  IF f.now = f.orig \/ "params" \in staged THEN {TRUE} ELSE BOOLEAN

ParamsFile(orig, override) ==
  [orig |-> orig, override |-> override, now |-> orig, captured |-> orig]

\* ------------------------------------------------------------- args file
MaxExtra == 1       \* the highest counter a committed file holds
MaxStagings == 2    \* the stagings of one behaviour that push

\* What the packed-arguments file can hold: nothing (it is absent), bytes
\* pickle cannot load, data without an extra counter, data with one.
ArgsAbsent == [kind |-> "absent", extra |-> 0]
ArgsUnreadable == [kind |-> "unreadable", extra |-> 0]
ArgsNoCounter == [kind |-> "nocounter", extra |-> 0]
ArgsCounter(n) == [kind |-> "counter", extra |-> n]

ArgsContents ==
  {ArgsUnreadable, ArgsNoCounter} \cup {ArgsCounter(n) : n \in 0..MaxExtra}

\* The file as a call finds it: tracked with its committed content, or
\* untracked and absent or left over.
ArgsFile(tracked, content) ==
  [tracked |-> tracked, head |-> IF tracked THEN content ELSE ArgsAbsent,
   now |-> content, found |-> content, recorded |-> <<>>]

\* ---------------------------------------------------------------- staging
BranchRef == 31      \* an experiment branch passed as `branch`
BranchTip == 13      \* the commit BranchRef points at
NameVal == 41        \* an experiment name passed as `name`
WorkspaceSha == 50   \* the stash commit stash_workspace creates
NewStashSha == MaxStash + 1

CleanWs(at) ==
  [dirty |-> FALSE, lock_dirty |-> FALSE, untracked |-> FALSE,
   applied |-> FALSE, staged |-> {}, at |-> at, detached |-> FALSE]

\* The workspaces a user can be in when staging starts.
UserWorkspaces ==
  {w \in [dirty : BOOLEAN, lock_dirty : BOOLEAN, untracked : BOOLEAN,
          applied : {FALSE}, staged : {{}}, at : {HeadRev},
          detached : {FALSE}] : w.lock_dirty => w.dirty}

StageArgs ==
  [params : BOOLEAN, detach_rev : {None, OtherRev},
   baseline_rev : {None, OtherRev}, branch : {None, BranchRef},
   name : {None, NameVal}]

NoArgs ==
  [params |-> FALSE, detach_rev |-> None, baseline_rev |-> None,
   branch |-> None, name |-> None]

IncludeUntracked(a) == a.detach_rev # None \/ a.branch # None

\* with self.scm.stash_workspace(include_untracked=...) as workspace:
\* the workspace's changes are stashed away (None when there are none).
EnterStashWorkspace(a, call) ==
  /\ sargs' = [args |-> a, ws0 |-> ws, ledger0 |-> stash, call |-> call]
  /\ workspace' =
       IF ws.dirty \/ (IncludeUntracked(a) /\ ws.untracked)
       THEN WorkspaceSha ELSE None
  /\ ws' = [ws EXCEPT !.dirty = FALSE, !.lock_dirty = FALSE,
                      !.untracked = IF IncludeUntracked(a) THEN FALSE
                                    ELSE @]
  /\ spc' = "entered"

\* How _stash_exp was reached: directly from new, or through
\* _resume_checkpoint.
StageCall ==
  [op |-> "stage", checkpoint_resume |-> None, params |-> "absent",
   resume_rev |-> None]

\* new(...) without checkpoint_resume: _stash_exp(*args, **kwargs)
StashWorkspace ==
  /\ spc = "idle"
  /\ \E a \in StageArgs : EnterStashWorkspace(a, StageCall)
  /\ UNCHANGED <<stash, reproVars, baseVars, sexc, hard_reset, stash_rev,
                 pfile, args_file>>

ApplyCondition ==
  ~(sargs.args.branch # None \/ sargs.args.detach_rev # None)
    /\ workspace # None

\* self.stash.apply(workspace): the stashed changes are applied again; a
\* failure here is raised outside the try block.
ApplyWorkspace ==
  /\ spc = "entered"
  /\ ApplyCondition
  /\ ws' = [ws EXCEPT !.dirty = TRUE, !.lock_dirty = sargs.ws0.lock_dirty,
                      !.applied = TRUE]
  /\ \E raises \in BOOLEAN :
       IF raises
       THEN sexc' = "StashApplyError" /\ spc' = "exit_ws"
       ELSE sexc' = sexc /\ spc' = "applied"
  /\ UNCHANGED <<stash, reproVars, baseVars, sargs, workspace, hard_reset,
                 stash_rev, pfile, args_file>>

\* self._prune_lockfiles(): dirty lock files go back to their index state;
\* a failure here is raised outside the try block.
PruneLockfiles ==
  /\ spc = "applied"
  /\ \E raises \in BOOLEAN :
       IF raises
       THEN sexc' = "PruneError" /\ spc' = "exit_ws" /\ ws' = ws
       ELSE /\ sexc' = sexc
            /\ spc' = "try"
            /\ ws' = [ws EXCEPT !.lock_dirty = FALSE]
  /\ UNCHANGED <<stash, reproVars, baseVars, sargs, workspace, hard_reset,
                 stash_rev, pfile, args_file>>

\* The condition of line 157 is false: nothing is applied.
SkipApply ==
  /\ spc = "entered"
  /\ ~ApplyCondition
  /\ spc' = "try"
  /\ UNCHANGED <<stash, reproVars, baseVars, sargs, ws, workspace, sexc,
                 hard_reset, stash_rev, pfile, args_file>>

\* The rev detach_head(head) checks out: detach_rev, else branch, else HEAD.
DetachTarget(a, at) ==
  IF a.detach_rev # None THEN a.detach_rev
  ELSE IF a.branch = BranchRef THEN BranchTip
  ELSE IF a.branch # None THEN refs[a.branch]
  ELSE at

\* with self.scm.detach_head(head) as rev
DetachHead ==
  /\ spc = "try"
  /\ \E raises \in BOOLEAN :
       IF raises
       THEN sexc' = "CheckoutError" /\ spc' = "finally" /\ ws' = ws
       ELSE /\ sexc' = sexc
            /\ spc' = "detached"
            /\ ws' = [ws EXCEPT !.at = DetachTarget(sargs.args, ws.at),
                                !.detached = TRUE]
  /\ UNCHANGED <<stash, reproVars, baseVars, sargs, workspace, hard_reset,
                 stash_rev, pfile, args_file>>

\* Leaving the detach_head block: the original HEAD is checked out again.
LeaveDetach(w) == [w EXCEPT !.at = head, !.detached = FALSE]

\* if params: self._update_params(params)
UpdateParams ==
  /\ spc = "detached"
  /\ sargs.args.params
  /\ \E raises \in BOOLEAN :
       IF raises
       THEN /\ sexc' = "ParamsError"
            /\ spc' = "finally"
            /\ ws' = LeaveDetach(ws)
            /\ pfile' = pfile
       ELSE /\ sexc' = sexc
            /\ spc' = "params"
            /\ pfile' = [pfile EXCEPT !.now = DeepMerge(@, pfile.override)]
            /\ ws' = [ws EXCEPT !.staged = @ \cup {"params"}]
  /\ UNCHANGED <<stash, reproVars, baseVars, sargs, workspace, hard_reset,
                 stash_rev, args_file>>

\* What _pack_args writes: with the file present and tracked, the counter
\* it holds (0 when it holds none or cannot be read) plus one; otherwise no
\* counter.
Packed(f) ==
  IF f.now.kind # "absent" /\ f.tracked
  THEN ArgsCounter((IF f.now.kind = "counter" THEN f.now.extra ELSE 0) + 1)
  ELSE ArgsNoCounter

\* The file after git has put the worktree back to HEAD.
Restored(f) == IF f.tracked THEN f.head ELSE ArgsAbsent

\* self._pack_args(*args, **kwargs)
PackArgs ==
  /\ \/ spc = "params"
     \/ spc = "detached" /\ ~sargs.args.params
  /\ \E raises \in BOOLEAN :
       IF raises
       THEN /\ sexc' = "PackError"
            /\ spc' = "finally"
            /\ ws' = LeaveDetach(ws)
            /\ args_file' = args_file
       ELSE /\ sexc' = sexc
            /\ spc' = "packed"
            /\ args_file' = [args_file EXCEPT !.found = args_file.now,
                                              !.now = Packed(args_file)]
            /\ ws' = [ws EXCEPT !.staged = @ \cup {"args"}]
  /\ UNCHANGED <<stash, reproVars, baseVars, sargs, workspace, hard_reset,
                 stash_rev, pfile>>

\* The ledger entry _stash_msg encodes: baseline_rev defaults to rev.
NewEntry(a, rev) ==
  [sha |-> NewStashSha, foreign |-> FALSE, rev |-> rev,
   baseline_rev |-> IF a.baseline_rev = None THEN rev ELSE a.baseline_rev,
   branch |-> a.branch, name |-> a.name]

\* stash_rev = self.stash.push(message=msg), then the detach_head block is
\* left.
PushStash ==
  /\ spc = "packed"
  /\ \E raises \in BOOLEAN :
       IF raises
       THEN /\ sexc' = "StashPushError"
            /\ ws' = LeaveDetach(ws)
            /\ UNCHANGED <<stash, stash_rev, pfile, args_file>>
       ELSE /\ sexc' = sexc
            /\ stash' = <<NewEntry(sargs.args, ws.at)>> \o stash
            /\ stash_rev' = NewStashSha
            /\ \E seen \in StashSees(pfile, ws.staged) :
                 pfile' = [pfile EXCEPT
                            !.captured = IF seen THEN pfile.now
                                         ELSE pfile.orig]
            /\ args_file' =
                 [args_file EXCEPT
                    !.recorded = Append(@, [found |-> args_file.found,
                                            tracked |-> args_file.tracked,
                                            written |-> args_file.now]),
                    !.now = Restored(args_file)]
            /\ ws' = LeaveDetach([ws EXCEPT !.dirty = FALSE,
                                            !.lock_dirty = FALSE,
                                            !.applied = FALSE,
                                            !.staged = {}])
  /\ spc' = "finally"
  /\ UNCHANGED <<reproVars, baseVars, sargs, workspace, hard_reset>>

\* finally: self.scm.reset(hard=True)
HardReset ==
  /\ spc = "finally"
  /\ hard_reset' = TRUE
  /\ ws' = [ws EXCEPT !.dirty = FALSE, !.lock_dirty = FALSE,
                      !.applied = FALSE, !.staged = {}]
  /\ pfile' = [pfile EXCEPT !.now = pfile.orig]
  /\ args_file' =
       [args_file EXCEPT
          !.now = IF args_file.tracked \/ "args" \in ws.staged
                  THEN Restored(args_file) ELSE @]
  /\ spc' = "exit_ws"
  /\ UNCHANGED <<stash, reproVars, baseVars, sargs, workspace, sexc,
                 stash_rev>>

\* Leaving the stash_workspace block: what it stashed is popped; then
\* _stash_exp returns stash_rev or the exception goes on.
LeaveStashWorkspace ==
  /\ spc = "exit_ws"
  /\ ws' = IF workspace = None THEN ws
           ELSE [ws EXCEPT !.dirty = sargs.ws0.dirty,
                           !.lock_dirty = sargs.ws0.lock_dirty,
                           !.untracked = sargs.ws0.untracked]
  /\ spc' = IF sexc = "none" THEN "returned" ELSE "raised"
  /\ UNCHANGED <<stash, reproVars, baseVars, sargs, workspace, sexc,
                 hard_reset, stash_rev, pfile, args_file>>


\* ------------------------------------------------------ baseline resolver
RootRev == 9        \* the repository's first commit: it has no parent
SymbolicBase == 1000

\* scm.resolve_rev(rev): a symbolic name (SymbolicBase + c) gives commit c.
ResolveRev(rev) == IF rev >= SymbolicBase THEN rev - SymbolicBase ELSE rev

\* The parents of a commit object (resolve_commit(rev).parents).
Parents(c) ==
  IF c = RootRev THEN <<>>
  ELSE IF c = HeadRev THEN <<RootRev>>
  ELSE IF c \in StashShas THEN <<StashItem(c).rev>>
  ELSE IF c = OldCommit THEN <<OtherRev>>
  ELSE <<HeadRev>>

\* The baseline an experiment ref's name encodes.
RefBaseline(n) == IF n % 2 = 1 THEN HeadRev ELSE OtherRev

\* exp_refs_by_rev(scm, rev): the experiment refs that point at rev, in
\* the order of iteration (by name).
RECURSIVE RefsFrom(_, _, _)
RefsFrom(r, rev, n) ==
  IF n > MaxRefNames THEN <<>>
  ELSE (IF r[n] = rev THEN <<n>> ELSE <<>>) \o RefsFrom(r, rev, n + 1)

ExpRefsByRev(r, rev) == RefsFrom(r, rev, 1)

\* Mutant of GetBranchByRev: allow_multiple is ignored.
GetBranchByRevStrict(r, rev, allow_multiple) ==
  LET ref_infos == ExpRefsByRev(r, rev)
  IN IF ref_infos = <<>> THEN [result |-> None, exc |-> "none"]
     ELSE IF Len(ref_infos) > 1
          THEN [result |-> None, exc |-> "MultipleBranchError"]
          ELSE [result |-> Head(ref_infos), exc |-> "none"]

\* Experiments.get_branch_by_rev(rev, allow_multiple): the full name of the
\* first experiment ref found for rev, None when there is none.
GetBranchByRev(r, rev, allow_multiple) ==
  LET ref_infos == ExpRefsByRev(r, rev)
  IN IF ref_infos = <<>> THEN [result |-> None, exc |-> "none"]
     ELSE IF Len(ref_infos) > 1 /\ ~allow_multiple
          THEN [result |-> None, exc |-> "MultipleBranchError"]
          ELSE [result |-> Head(ref_infos), exc |-> "none"]

\* Mutant of GetBaseline: the published refs are searched before the ledger.
GetBaselineRefsFirst(s, r, rev) ==
  LET x == ResolveRev(rev)
      sr == StashRevs(s)
      infos == ExpRefsByRev(r, x)
  IN IF infos # <<>> THEN RefBaseline(Head(infos))
     ELSE IF x \in DOMAIN sr THEN sr[x].baseline_rev
     ELSE None

\* Experiments._get_baseline(rev)
GetBaseline(s, r, rev) ==
  LET x == ResolveRev(rev)
      sr == StashRevs(s)
      infos == ExpRefsByRev(r, x)
  IN IF x \in DOMAIN sr THEN sr[x].baseline_rev
     ELSE IF infos # <<>> THEN RefBaseline(Head(infos))
     ELSE None

\* Experiments.check_baseline(exp_rev): the value returned, or the
\* exception raised.
\* Mutant of CheckBaseline: the baseline found is returned without being
\* compared with the head.
CheckBaselineUncompared(s, r, h, exp_rev) ==
  IF exp_rev = h THEN [result |-> exp_rev, exc |-> "none"]
  ELSE
    LET got == GetBaseline(s, r, exp_rev)
        parents == Parents(ResolveRev(exp_rev))
    IN IF got = None /\ parents = <<>>
       THEN [result |-> None, exc |-> "AttributeError"]
       ELSE [result |-> IF got = None THEN Head(parents) ELSE got,
             exc |-> "none"]

CheckBaseline(s, r, h, exp_rev) ==
  IF exp_rev = h THEN [result |-> exp_rev, exc |-> "none"]
  ELSE
    LET got == GetBaseline(s, r, exp_rev)
        parents == Parents(ResolveRev(exp_rev))
    IN IF got = None /\ parents = <<>>
       THEN \* first(exp_commit.parents) is None: None.hexsha
            [result |-> None, exc |-> "AttributeError"]
       ELSE LET exp_baseline == IF got = None THEN Head(parents) ELSE got
            IN IF exp_baseline = h
               THEN [result |-> exp_baseline, exc |-> "none"]
               ELSE [result |-> None, exc |-> "BaselineMismatchError"]

\* The revs a caller asks about: commits, ledger entries, and symbolic names.
QueryRevs ==
  {RootRev, HeadRev, OtherRev, AdHocRev, OldCommit, ExpCommit(1)}
    \cup StashShas
    \cup {SymbolicBase + HeadRev, SymbolicBase + 1}

\* A call of check_baseline(rev).
CallCheckBaseline ==
  /\ \E rev \in QueryRevs :
       LET got == CheckBaseline(stash, refs, head, rev)
       IN bl' = [op |-> "check_baseline", rev |-> rev,
                 allow_multiple |-> FALSE,
                 result |-> got.result, exc |-> got.exc]
  /\ UNCHANGED <<stash, reproVars, stageVars, ws, head, exec_checkpoint,
                 msg, lockVars>>

\* A call of get_baseline(rev).
CallGetBaseline ==
  /\ \E rev \in QueryRevs :
       bl' = [op |-> "get_baseline", rev |-> rev,
              allow_multiple |-> FALSE,
              result |-> GetBaseline(stash, refs, rev), exc |-> "none"]
  /\ UNCHANGED <<stash, reproVars, stageVars, ws, head, exec_checkpoint,
                 msg, lockVars>>

\* A call of get_branch_by_rev(rev, allow_multiple).
CallGetBranchByRev ==
  /\ \E rev \in QueryRevs, allow_multiple \in BOOLEAN :
       LET got == GetBranchByRev(refs, rev, allow_multiple)
       IN bl' = [op |-> "get_branch_by_rev", rev |-> rev,
                 allow_multiple |-> allow_multiple,
                 result |-> got.result, exc |-> got.exc]
  /\ UNCHANGED <<stash, reproVars, stageVars, ws, head, exec_checkpoint,
                 msg, lockVars>>

\* -------------------------------------------------------- stash messages
MaxHexLen == 1
MaxTextLen == 2

\* Characters: hex digits, a letter that is no hex digit, whitespace, the
\* field separator and another character a name may not contain.
HexChars == {"a", "0"}
SpaceChars == {" "}
NameStopChars == {":", "~"}
NameChars == HexChars \cup {"x"} \cup SpaceChars
BranchChars == {"x", ":", " "}

\* The characters the name group of STASH_EXPERIMENT_RE takes.
NameGroupChars == (NameChars \cup BranchChars) \ NameStopChars

RECURSIVE SeqsUpTo(_, _)
SeqsUpTo(S, n) ==
  IF n = 0 THEN {<<>>}
  ELSE LET shorter == SeqsUpTo(S, n - 1)
       IN shorter \cup {Append(t, c) : t \in shorter, c \in S}

\* An optional string: None, or a string.
Absent == [some |-> FALSE, text |-> <<>>]
Some(t) == [some |-> TRUE, text |-> t]

\* Python truth of an optional string: neither None nor empty.
Truthy(o) == o.some /\ o.text # <<>>

DvcExpPrefix == <<"d", "v", "c", "-", "e", "x", "p", ":">>
CommitPrefix == <<"c", "o", "m", "m", "i", "t", ":", " ">>

\* Experiments._stash_msg(rev, baseline_rev, branch, name)
StashMsg(rev, baseline_rev, branch, name) ==
  LET base == IF baseline_rev = <<>> THEN rev ELSE baseline_rev
      m == DvcExpPrefix \o rev \o <<":">> \o base \o <<":">>
             \o (IF Truthy(name) THEN name.text ELSE <<>>)
  IN IF Truthy(branch) THEN m \o <<":">> \o branch.text ELSE m

\* The message of the stash commit the driver writes for push(message).
DriverMessage(m) == CommitPrefix \o m

\* str.strip()
RECURSIVE Strip(_)
Strip(t) ==
  IF t = <<>> THEN t
  ELSE IF Head(t) \in SpaceChars THEN Strip(Tail(t))
  ELSE IF t[Len(t)] \in SpaceChars THEN Strip(SubSeq(t, 1, Len(t) - 1))
  ELSE t

\* The longest prefix of t made of characters of S.
RECURSIVE Run(_, _)
Run(t, S) ==
  IF t = <<>> \/ Head(t) \notin S THEN <<>>
  ELSE <<Head(t)>> \o Run(Tail(t), S)

Rest(t, n) == SubSeq(t, n + 1, Len(t))
StartsWith(t, p) == Len(t) >= Len(p) /\ SubSeq(t, 1, Len(p)) = p
NoMatch ==
  [matched |-> FALSE, rev |-> <<>>, baseline_rev |-> <<>>, name |-> Absent,
   branch |-> Absent]

\* STASH_EXPERIMENT_RE.match(t): the groups, when t matches.
StashExperimentRE(t) ==
  LET p == CommitPrefix \o DvcExpPrefix
      t1 == Rest(t, Len(p))
      rev == Run(t1, HexChars)
      t2 == Rest(t1, Len(rev))
      t3 == Rest(t2, 1)
      base == Run(t3, HexChars)
      t4 == Rest(t3, Len(base))
      t5 == Rest(t4, 1)
      name == Run(t5, NameGroupChars)
      t6 == Rest(t5, Len(name))
  IN IF ~StartsWith(t, p) THEN NoMatch
     ELSE IF rev = <<>> \/ ~StartsWith(t2, <<":">>) THEN NoMatch
     ELSE IF base = <<>> \/ ~StartsWith(t4, <<":">>) THEN NoMatch
     ELSE IF t6 = <<>>
          THEN [matched |-> TRUE, rev |-> rev, baseline_rev |-> base,
                name |-> Some(name), branch |-> Absent]
     ELSE IF Head(t6) = ":" /\ Len(t6) >= 2
          THEN [matched |-> TRUE, rev |-> rev, baseline_rev |-> base,
                name |-> Some(name), branch |-> Some(Tail(t6))]
     ELSE NoMatch

\* What Experiments.stash_revs reads from one stash entry's message.
ParseStashMsg(t) == StashExperimentRE(Strip(t))

\* The (rev, baseline_rev, name, branch) within the grammar.
MsgInputs ==
  [rev : SeqsUpTo(HexChars, MaxHexLen) \ {<<>>},
   baseline_rev : SeqsUpTo(HexChars, MaxHexLen) \ {<<>>},
   name : {Absent} \cup {Some(t) : t \in SeqsUpTo(NameChars, MaxTextLen)},
   branch : {Absent}
              \cup {Some(t) : t \in SeqsUpTo(BranchChars, MaxTextLen) \ {<<>>}}]

NoMsg ==
  [phase |-> "none", input |-> NoMatch, text |-> <<>>, parsed |-> NoMatch]

\* _stash_msg formats the message and stash.push writes it.
FormatMsg ==
  /\ msg.phase = "input"
  /\ msg' = [msg EXCEPT
              !.phase = "pushed",
              !.text = DriverMessage(StashMsg(msg.input.rev,
                                              msg.input.baseline_rev,
                                              msg.input.branch,
                                              msg.input.name))]
  /\ UNCHANGED <<stash, reproVars, stageVars, head, exec_checkpoint, bl,
                 lockVars>>

\* stash_revs reads the entry back.
ParseMsg ==
  /\ msg.phase = "pushed"
  /\ msg' = [msg EXCEPT !.phase = "parsed",
                        !.parsed = ParseStashMsg(msg.text)]
  /\ UNCHANGED <<stash, reproVars, stageVars, head, exec_checkpoint, bl,
                 lockVars>>

\* ------------------------------------------------------------- scm_lock
MaxProcs == 3
NoProc == 0

Procs == 1..MaxProcs

\* The entry points scm_locked wraps that change the ledger or the refs.
LockedOps == {"new", "reproduce"}

\* What one call changes, in order: new pushes a ledger entry; reproduce
\* sets and removes the handoff refs, publishes refs and drops entries.
Mutations(op) ==
  IF op = "new" THEN <<"stash.push">>
  ELSE <<"set_ref", "remove_ref", "fetch_exps", "stash.drop">>

ProcIdle == [state |-> "idle", op |-> "none", at |-> 0, exc |-> "none"]

Inside == {p \in Procs : procs[p].state = "inside"}

\* Mutant of ScmLockedEnter: the entry point is not wrapped, f is called
\* without taking the lock.
EnterUnlocked(p, op) ==
  /\ procs[p].state = "idle"
  /\ procs' = [procs EXCEPT ![p] = [state |-> "inside", op |-> op,
                                    at |-> 0, exc |-> "none"]]
  /\ UNCHANGED <<stash, reproVars, stageVars, head, exec_checkpoint, bl, msg,
                 scm_lock, dispatched>>

\* wrapper of scm_locked: with exp.scm_lock, entered when the lock is free.
ScmLockedEnter(p, op) ==
  /\ procs[p].state = "idle"
  /\ scm_lock = NoProc
  /\ scm_lock' = p
  /\ procs' = [procs EXCEPT ![p] = [state |-> "inside", op |-> op,
                                    at |-> 0, exc |-> "none"]]
  /\ UNCHANGED <<stash, reproVars, stageVars, head, exec_checkpoint, bl, msg,
                 dispatched>>

\* with exp.scm_lock while another process holds the lock: LockError.
LockUnavailable(p, op) ==
  /\ procs[p].state = "idle"
  /\ scm_lock # NoProc
  /\ procs' = [procs EXCEPT ![p] = [state |-> "raised", op |-> op,
                                    at |-> 0, exc |-> "LockError"]]
  /\ UNCHANGED <<stash, reproVars, stageVars, head, exec_checkpoint, bl, msg,
                 scm_lock, dispatched>>

\* f(exp, ...): the call's next change of the ledger or the refs.
Mutate(p) ==
  /\ procs[p].state = "inside"
  /\ procs[p].at < Len(Mutations(procs[p].op))
  /\ procs' = [procs EXCEPT ![p].at = @ + 1]
  /\ UNCHANGED <<stash, reproVars, stageVars, head, exec_checkpoint, bl, msg,
                 scm_lock, dispatched>>

\* Leaving the with block: f returned, or raised part way; the lock is
\* released.
ScmLockedExit(p) ==
  /\ procs[p].state = "inside"
  /\ \E raises \in BOOLEAN :
       /\ ~raises => procs[p].at = Len(Mutations(procs[p].op))
       /\ procs' = [procs EXCEPT
                      ![p].state = IF raises THEN "raised" ELSE "returned",
                      ![p].exc = IF raises THEN "Exception" ELSE "none"]
  /\ scm_lock' = NoProc
  /\ UNCHANGED <<stash, reproVars, stageVars, head, exec_checkpoint, bl, msg,
                 dispatched>>

\* ------------------------------------------------- reproduce_one, queue
\* Calls of reproduce_one(queue=False) and of reproduce() over the whole
\* queue by several processes.  Each locked call is one step from taking
\* the lock to releasing it: nothing another process does falls inside.

\* The id of the next stash commit: one no process has seen yet.
NextSha ==
  1 + Max({0} \cup {stash[i].sha : i \in 1..Len(stash)}
              \cup Range(dispatched) \cup {procs[q].at : q \in Procs})

\* stash_rev = self.new(**kwargs): a process enters new.
OneNewEnter(p) ==
  /\ procs[p].state = "idle"
  /\ scm_lock = NoProc
  /\ scm_lock' = p
  /\ procs' = [procs EXCEPT ![p] = [state |-> "inside", op |-> "new",
                                    at |-> 0, exc |-> "none"]]
  /\ UNCHANGED <<stash, reproVars, stageVars, head, exec_checkpoint, bl, msg,
                 dispatched>>

\* new returns the id of the entry it pushed, and the lock is released.
OneNewExit(p) ==
  /\ procs[p].state = "inside"
  /\ procs[p].op = "new"
  /\ stash' = <<[NewEntry(NoArgs, head) EXCEPT !.sha = NextSha]>> \o stash
  /\ procs' = [procs EXCEPT ![p].state = "staged", ![p].at = NextSha]
  /\ scm_lock' = NoProc
  /\ UNCHANGED <<reproVars, stageVars, head, exec_checkpoint, bl, msg,
                 dispatched>>

\* results = self.reproduce([stash_rev], keep_stash=False): the process
\* takes the lock again.
OneReproduceEnter(p) ==
  /\ procs[p].state = "staged"
  /\ scm_lock = NoProc
  /\ scm_lock' = p
  /\ procs' = [procs EXCEPT ![p].state = "inside", ![p].op = "reproduce"]
  /\ UNCHANGED <<stash, reproVars, stageVars, head, exec_checkpoint, bl, msg,
                 dispatched>>

\* reproduce() over the whole queue (reproduce_queued) is entered.
QueueEnter(p) ==
  /\ procs[p].state = "idle"
  /\ scm_lock = NoProc
  /\ scm_lock' = p
  /\ procs' = [procs EXCEPT ![p] = [state |-> "inside", op |-> "reproduce",
                                    at |-> 0, exc |-> "none"]]
  /\ UNCHANGED <<stash, reproVars, stageVars, head, exec_checkpoint, bl, msg,
                 dispatched>>

\* A call of reproduce from its working set to its return: every unit is
\* handed to a worker, some succeed, the ledger is pruned; or it raises
\* after the workers ran, and nothing is dropped.
ReproduceExit(p) ==
  /\ procs[p].state = "inside"
  /\ procs[p].op = "reproduce"
  /\ LET one == procs[p].at # 0
         tr == IF one THEN ToRunRevs(stash, <<procs[p].at>>)
               ELSE ToRunAll(stash)
         revs == {tr[u].input_rev : u \in DOMAIN tr}
     IN /\ dispatched' = dispatched \o [u \in DOMAIN tr |-> tr[u].input_rev]
        /\ \E raises \in BOOLEAN, succeeded \in SUBSET revs,
              keep \in IF one THEN {FALSE} ELSE BOOLEAN :
             /\ stash' =
                  IF raises THEN stash
                  ELSE DropAll(stash,
                               ToDrop(keep, StashRevs(stash), tr,
                                      [r \in succeeded |-> {}]))
             /\ procs' = [procs EXCEPT
                            ![p].state = IF raises THEN "raised"
                                         ELSE "returned",
                            ![p].exc = IF raises THEN "Exception"
                                       ELSE "none"]
  /\ scm_lock' = NoProc
  /\ UNCHANGED <<reproVars, stageVars, head, exec_checkpoint, bl, msg>>

\* ------------------------------------------------------ checkpoint resume
LAST_CHECKPOINT == 2000   \* Experiments.LAST_CHECKPOINT (":last")

\* The params keyword of new(): not passed, passed with no overrides
\* (None or an empty mapping), or passed with overrides.
ParamsKw == {"absent", "empty", "given"}

\* "params" in kwargs
ParamsInKwargs(p) == p # "absent"

\* kwargs.get("params", None) is true
ParamsGiven(p) == p = "given"

\* What a caller passes as checkpoint_resume.
ResumeRevs ==
  {LAST_CHECKPOINT, OldCommit, ExpCommit(1), AdHocRev,
   SymbolicBase + OldCommit}

ResumeRaises(e, resume_rev) ==
  [exc |-> e, resume_rev |-> resume_rev, args |-> NoArgs]

\* Mutant of ResumeCheckpoint: with params the entry still extends the
\* branch found.
ResumeKeepsBranch(checkpoint_resume, p, name) ==
  LET last == checkpoint_resume = LAST_CHECKPOINT
      resume_rev == IF last THEN exec_checkpoint
                    ELSE ResolveRev(checkpoint_resume)
      got == GetBranchByRev(refs, resume_rev, ParamsInKwargs(p))
  IN IF last /\ exec_checkpoint = None
     THEN ResumeRaises("DvcException", None)
     ELSE IF got.exc # "none" THEN ResumeRaises(got.exc, resume_rev)
     ELSE IF got.result = None THEN ResumeRaises("DvcException", resume_rev)
     ELSE [exc |-> "none", resume_rev |-> resume_rev,
           args |-> [params |-> ParamsGiven(p), detach_rev |-> None,
                     baseline_rev |->
                       GetBaseline(stash, refs, refs[got.result]),
                     branch |-> got.result, name |-> name]]

\* Mutant of ResumeCheckpoint: a checkpoint no branch contains is staged
\* as a detached entry instead of being refused.
ResumeWithoutBranch(checkpoint_resume, p, name) ==
  LET last == checkpoint_resume = LAST_CHECKPOINT
      resume_rev == IF last THEN exec_checkpoint
                    ELSE ResolveRev(checkpoint_resume)
      got == GetBranchByRev(refs, resume_rev, ParamsInKwargs(p))
  IN IF last /\ exec_checkpoint = None
     THEN ResumeRaises("DvcException", None)
     ELSE IF got.exc # "none" THEN ResumeRaises(got.exc, resume_rev)
     ELSE IF got.result = None
     THEN [exc |-> "none", resume_rev |-> resume_rev,
           args |-> [params |-> ParamsGiven(p), detach_rev |-> resume_rev,
                     baseline_rev |-> None, branch |-> None, name |-> name]]
     ELSE [exc |-> "none", resume_rev |-> resume_rev,
           args |-> [params |-> ParamsGiven(p),
                     detach_rev |-> IF ParamsGiven(p) THEN resume_rev
                                    ELSE None,
                     baseline_rev |->
                       GetBaseline(stash, refs, refs[got.result]),
                     branch |-> IF ParamsGiven(p) THEN None ELSE got.result,
                     name |-> name]]

\* Experiments._resume_checkpoint up to its call of _stash_exp: the
\* exception it raises, or the arguments it stages with.  resolve_rev of
\* the branch found is the commit that branch points at.
ResumeCheckpoint(checkpoint_resume, p, name) ==
  LET last == checkpoint_resume = LAST_CHECKPOINT
      resume_rev == IF last THEN exec_checkpoint
                    ELSE ResolveRev(checkpoint_resume)
      got == GetBranchByRev(refs, resume_rev, ParamsInKwargs(p))
  IN IF last /\ exec_checkpoint = None
     THEN ResumeRaises("DvcException", None)
     ELSE IF got.exc # "none" THEN ResumeRaises(got.exc, resume_rev)
     ELSE IF got.result = None THEN ResumeRaises("DvcException", resume_rev)
     ELSE [exc |-> "none", resume_rev |-> resume_rev,
           args |-> [params |-> ParamsGiven(p),
                     detach_rev |-> IF ParamsGiven(p) THEN resume_rev
                                    ELSE None,
                     baseline_rev |->
                       GetBaseline(stash, refs, refs[got.result]),
                     branch |-> IF ParamsGiven(p) THEN None ELSE got.result,
                     name |-> name]]

\* new(checkpoint_resume=..., **kwargs): _resume_checkpoint raises, or it
\* enters _stash_exp with the arguments it worked out.
NewResume ==
  /\ spc = "idle"
  /\ \E cr \in ResumeRevs, p \in ParamsKw, name \in {None, NameVal} :
       LET got == ResumeCheckpoint(cr, p, name)
           call == [op |-> "resume", checkpoint_resume |-> cr,
                    params |-> p, resume_rev |-> got.resume_rev]
       IN IF got.exc # "none"
          THEN /\ sexc' = got.exc
               /\ spc' = "raised"
               /\ sargs' = [args |-> NoArgs, ws0 |-> ws, ledger0 |-> stash,
                            call |-> call]
               /\ UNCHANGED <<ws, workspace>>
          ELSE /\ EnterStashWorkspace(got.args, call)
               /\ sexc' = sexc
  /\ UNCHANGED <<stash, reproVars, baseVars, hard_reset, stash_rev, pfile,
                 args_file>>

\* ---------------------------------------------------------- specification
EmptyMap == [r \in {} |-> {}]

\* The published refs when a call starts: one experiment published by an
\* earlier run.
PublishedRefs == [n \in ExpRefNames |-> IF n = 1 THEN OldCommit ELSE None]

ReproIdle ==
  /\ handoff = [n \in HandoffRefs |-> None]
  /\ pc = "idle"
  /\ idx = 1
  /\ exc = "none"
  /\ keep_stash = TRUE
  /\ jobs = 1
  /\ stash_revs = StashRevs(stash)
  /\ stash0 = stash
  /\ to_run = <<>>
  /\ revs_arg = RevsNone
  /\ executors = {}
  /\ fut = <<>>
  /\ out = <<>>
  /\ pid_q = {}
  /\ pids = {}
  /\ reported = {}
  /\ signalled = {}
  /\ pendingAtInt = {}
  /\ interrupted = FALSE
  /\ result = EmptyMap
  /\ harvested = {}
  /\ cleaned = {}
  /\ ret = {}
  /\ dropped = <<>>

StageIdle ==
  /\ spc = "idle"
  /\ sargs = [args |-> NoArgs, ws0 |-> CleanWs(HeadRev), ledger0 |-> <<>>,
              call |-> StageCall]
  /\ workspace = None
  /\ sexc = "none"
  /\ hard_reset = FALSE
  /\ stash_rev = None
  /\ pfile = ParamsFile("lr" :> Scalar(1), "lr" :> Scalar(2))
  /\ args_file = ArgsFile(FALSE, ArgsAbsent)

BaseIdle ==
  /\ head = HeadRev
  /\ exec_checkpoint = None
  /\ bl = [op |-> "none", rev |-> None, allow_multiple |-> FALSE,
           result |-> None, exc |-> "none"]
  /\ msg = NoMsg
  /\ scm_lock = NoProc
  /\ procs = [p \in Procs |-> ProcIdle]
  /\ dispatched = <<>>

Init ==
  /\ stash \in Ledgers
  /\ refs = PublishedRefs
  /\ ReproIdle
  /\ StageIdle
  /\ ws = CleanWs(HeadRev)
  /\ BaseIdle

Next ==
  \/ CallAll
  \/ CallRevs
  \/ InitExecutor
  \/ InitExecutorRaises
  \/ SubmitAll
  \/ \E u \in Units : Start(u)
  \/ \E u \in Units : ReportPid(u)
  \/ \E u \in Units : Finish(u)
  \/ WaitReturns
  \/ Interrupt
  \/ SignalRunning
  \/ SignalKeyError
  \/ CancelPending
  \/ SignalSkipDone
  \/ SignalEnd
  \/ HarvestCancelled
  \/ HarvestFailed
  \/ HarvestCollect
  \/ HarvestDiverged
  \/ HarvestEnd
  \/ PoolShutdown
  \/ PruneAndReturn

Spec == Init /\ [][Next]_vars

\* The worker processes: the pool starts a unit, the worker reports its
\* pid, the worker exits.
Workers ==
  \/ \E u \in Units : Start(u)
  \/ \E u \in Units : ReportPid(u)
  \/ \E u \in Units : Finish(u)

\* The coordinator's own steps; the interrupt is the operator's.
Coordinator ==
  \/ InitExecutor
  \/ SubmitAll
  \/ WaitReturns
  \/ SignalRunning
  \/ SignalKeyError
  \/ CancelPending
  \/ SignalSkipDone
  \/ SignalEnd
  \/ HarvestCancelled
  \/ HarvestFailed
  \/ HarvestCollect
  \/ HarvestDiverged
  \/ HarvestEnd
  \/ PoolShutdown
  \/ PruneAndReturn

\* reproduce with workers that keep running until they exit and a
\* coordinator that keeps running: wait(futures), future.exception() and
\* the pool's shutdown block only on workers.
SpecLive == Spec /\ WF_vars(Workers) /\ WF_vars(Coordinator)

NextQueue ==
  \/ \E p \in Procs : OneNewEnter(p)
  \/ \E p \in Procs : OneNewExit(p)
  \/ \E p \in Procs : OneReproduceEnter(p)
  \/ \E p \in Procs : QueueEnter(p)
  \/ \E p \in Procs : ReproduceExit(p)

SpecQueue == Init /\ [][NextQueue]_vars

\* Staging one experiment from any workspace a user can be in.
InitStage ==
  /\ stash \in Ledgers
  /\ refs = PublishedRefs
  /\ ReproIdle
  /\ StageIdle
  /\ ws \in UserWorkspaces
  /\ BaseIdle

NextStage ==
  \/ StashWorkspace
  \/ ApplyWorkspace
  \/ PruneLockfiles
  \/ SkipApply
  \/ DetachHead
  \/ UpdateParams
  \/ PackArgs
  \/ PushStash
  \/ HardReset
  \/ LeaveStashWorkspace

SpecStage == InitStage /\ [][NextStage]_vars

\* Staging over the params files and overrides a caller can have.
InitParams ==
  /\ stash = Newest(MaxStash - 1)
  /\ refs = PublishedRefs
  /\ ReproIdle
  /\ spc = "idle"
  /\ sargs = [args |-> NoArgs, ws0 |-> CleanWs(HeadRev), ledger0 |-> <<>>,
              call |-> StageCall]
  /\ workspace = None
  /\ sexc = "none"
  /\ hard_reset = FALSE
  /\ stash_rev = None
  /\ \E orig \in OrigFiles, override \in ParamOverrides :
       pfile = ParamsFile(orig, override)
  /\ args_file = ArgsFile(FALSE, ArgsAbsent)
  /\ ws = [CleanWs(HeadRev) EXCEPT !.dirty = TRUE]
  /\ BaseIdle

SpecParams == InitParams /\ [][NextStage]_vars

\* reproduce_one: the entry new staged is run and dropped, and new can be
\* called again; also after a new that raised.
NewAgain ==
  /\ spc \in {"returned", "raised"}
  /\ Len(args_file.recorded) < MaxStagings
  /\ spc' = "idle"
  /\ stash' = IF spc = "returned" THEN sargs.ledger0 ELSE stash
  /\ workspace' = None
  /\ sexc' = "none"
  /\ hard_reset' = FALSE
  /\ stash_rev' = None
  /\ UNCHANGED <<reproVars, baseVars, sargs, ws, pfile, args_file>>

\* Successive stagings over the packed-arguments files a call can find.
InitPack ==
  /\ stash = <<>>
  /\ refs = PublishedRefs
  /\ ReproIdle
  /\ spc = "idle"
  /\ sargs = [args |-> NoArgs, ws0 |-> CleanWs(HeadRev), ledger0 |-> <<>>,
              call |-> StageCall]
  /\ workspace = None
  /\ sexc = "none"
  /\ hard_reset = FALSE
  /\ stash_rev = None
  /\ pfile = ParamsFile("lr" :> Scalar(1), "lr" :> Scalar(2))
  /\ \E tracked \in BOOLEAN :
       \E content \in IF tracked THEN ArgsContents
                      ELSE ArgsContents \cup {ArgsAbsent} :
         args_file = ArgsFile(tracked, content)
  /\ ws \in {CleanWs(HeadRev), [CleanWs(HeadRev) EXCEPT !.dirty = TRUE]}
  /\ BaseIdle

NextPack == NextStage \/ NewAgain

SpecPack == InitPack /\ [][NextPack]_vars

\* Resuming a checkpoint: the experiment refs point at checkpoint commits
\* and EXEC_CHECKPOINT is the last checkpoint a worker recorded.
InitResume ==
  /\ stash \in Ledgers
  /\ refs \in [ExpRefNames -> {None, OldCommit, ExpCommit(1)}]
  /\ ReproIdle
  /\ StageIdle
  /\ ws \in {w \in UserWorkspaces : ~w.lock_dirty}
  /\ head = HeadRev
  /\ exec_checkpoint \in {None, OldCommit, AdHocRev}
  /\ bl = [op |-> "none", rev |-> None, allow_multiple |-> FALSE,
           result |-> None, exc |-> "none"]
  /\ msg = NoMsg
  /\ scm_lock = NoProc
  /\ procs = [p \in Procs |-> ProcIdle]
  /\ dispatched = <<>>

NextResume ==
  \/ NewResume
  \/ SkipApply
  \/ DetachHead
  \/ UpdateParams
  \/ PackArgs
  \/ PushStash
  \/ HardReset
  \/ LeaveStashWorkspace

SpecResume == InitResume /\ [][NextResume]_vars

\* The stash message of one entry, from _stash_msg to stash_revs.
InitMsg ==
  /\ stash = Newest(MaxStash)
  /\ refs = PublishedRefs
  /\ ReproIdle
  /\ StageIdle
  /\ ws = CleanWs(HeadRev)
  /\ head = HeadRev
  /\ exec_checkpoint = None
  /\ bl = [op |-> "none", rev |-> None, allow_multiple |-> FALSE,
           result |-> None, exc |-> "none"]
  /\ \E i \in MsgInputs :
       msg = [phase |-> "input", input |-> [matched |-> TRUE] @@ i,
              text |-> <<>>, parsed |-> NoMatch]
  /\ scm_lock = NoProc
  /\ procs = [p \in Procs |-> ProcIdle]
  /\ dispatched = <<>>

NextMsg ==
  \/ FormatMsg
  \/ ParseMsg

SpecMsg == InitMsg /\ [][NextMsg]_vars

\* Processes that call new and reproduce of one repository concurrently.
NextLock ==
  \/ \E p \in Procs, op \in LockedOps : ScmLockedEnter(p, op)
  \/ \E p \in Procs, op \in LockedOps : LockUnavailable(p, op)
  \/ \E p \in Procs : Mutate(p)
  \/ \E p \in Procs : ScmLockedExit(p)

SpecLock == Init /\ [][NextLock]_vars

\* Baseline queries against any ledger, any published refs (a ref may point
\* at a ledger entry's commit) and either head.
InitBaseline ==
  /\ stash \in Ledgers
  /\ refs \in [ExpRefNames -> {None, 1, OldCommit, ExpCommit(1)}]
  /\ ReproIdle
  /\ StageIdle
  /\ ws = CleanWs(HeadRev)
  /\ head \in {HeadRev, OtherRev}
  /\ exec_checkpoint = None
  /\ bl = [op |-> "none", rev |-> None, allow_multiple |-> FALSE,
           result |-> None, exc |-> "none"]
  /\ msg = NoMsg
  /\ scm_lock = NoProc
  /\ procs = [p \in Procs |-> ProcIdle]
  /\ dispatched = <<>>

NextBaseline ==
  \/ CallCheckBaseline
  \/ CallGetBaseline
  \/ CallGetBranchByRev

SpecBaseline == InitBaseline /\ [][NextBaseline]_vars

\* ------------------------------------------------------------ properties
Ended == pc \in {"returned", "raised"}
Succeeded(u) == fut[u] = "finished" /\ out[u].kind = "ok"
Failed(u) == fut[u] = "finished" /\ out[u].kind \in {"failed", "killed"}
RevOf(u) == to_run[u].input_rev
SucceededRevs == {RevOf(u) : u \in {v \in Units : Succeeded(v)}}
HashesIn(m) == {p[2] : p \in m}
PublishErrors == {"CheckpointExistsError", "ExperimentExistsError"}

\* The ledger s without the experiment entries whose sha is in revs.
Without(s, revs) == SelectSeq(s, LAMBDA e : e.foreign \/ e.sha \notin revs)

\* C1: a worker's failure never makes reproduce raise or skip a sibling:
\* reproduce raises only for another reason (a publish error of a unit that
\* succeeded, a cancellation, a missing pid, a failed construction); when it
\* returns, every unit was harvested, the per-rev results hold exactly the
\* succeeded units, and the returned mapping is their union: it holds the
\* result of every succeeded unit and of no failed or cancelled one.
C1_FailureIsolated ==
  /\ pc \in {"shutdown", "raised"} =>
       \/ exc \in {"CancelledError", "KeyError", "ExecutorInitError"}
       \/ exc \in PublishErrors /\ out[idx].kind = "ok"
  /\ pc = "returned" =>
       /\ harvested = Units
       /\ DOMAIN result = SucceededRevs
       /\ ret = MergeResults(result)
       /\ \A u \in Units : ExpHash(RevOf(u)) \in HashesIn(ret) <=> Succeeded(u)

C1_Witness ==
  /\ pc = "returned"
  /\ \E u, v \in Units : u < v /\ Failed(u) /\ Succeeded(v)
  /\ ret # {}

\* C2: after reproduce(keep_stash=true) returns, the ledger is the ledger
\* of the call's start without the entries whose unit succeeded; every other
\* entry is there, unchanged and in the same order.
C2_KeepStashPrune ==
  (pc = "returned" /\ keep_stash) => stash = Without(stash0, SucceededRevs)

C2_Witness ==
  /\ pc = "returned"
  /\ keep_stash
  /\ \E u, v \in Units :
       /\ Failed(u) /\ Succeeded(v)
       /\ {RevOf(u), RevOf(v)} \subseteq DOMAIN stash_revs
       /\ stash_revs[RevOf(v)].index < stash_revs[RevOf(u)].index
  /\ Len(stash) = Len(stash0) - 1

\* C3: after reproduce(keep_stash=false) returns, the ledger is the ledger
\* of the call's start without the entries of the working set, whatever
\* their outcome; every entry outside the working set is there.
C3_DropAllPrune ==
  (pc = "returned" /\ ~keep_stash) => stash = Without(stash0, InputRevs)

C3_Witness ==
  /\ pc = "returned"
  /\ ~keep_stash
  /\ \E u, v \in Units :
       /\ Failed(u) /\ Succeeded(v)
       /\ {RevOf(u), RevOf(v)} \subseteq DOMAIN stash_revs
  /\ Len(stash) = 1
  /\ Len(stash0) = 3

\* C4: a unit that had not started when the interrupt arrived never runs,
\* never reports a process id and never has a result.
C4_UnstartedNeverRuns ==
  \A u \in pendingAtInt :
    /\ fut[u] \in {"pending", "cancelled"}
    /\ u \notin reported
    /\ RevOf(u) \notin DOMAIN result

\* C5: when an interrupt cancelled a unit, reproduce still harvests every
\* unit and returns (unless a publish error or a missing pid ended it).
C5_CancelNeverAborts ==
  (Ended /\ \E u \in Units : fut[u] = "cancelled") =>
     \/ pc = "returned" /\ harvested = Units
     \/ exc \in PublishErrors \cup {"KeyError"}

\* C6: when reproduce has ended after its workers were constructed (it
\* returned, or raised while harvesting), cleanup has run for every
\* executor constructed.
C6_CleanupOnEveryExit ==
  (Ended /\ exc \notin {"ExecutorInitError", "KeyError"}) =>
     cleaned = executors

\* C7: when reproduce has ended, none of the handoff refs exists.
C7_HandoffRefsGone ==
  Ended => \A n \in HandoffRefs : handoff[n] = None

\* C8: when _stash_exp has ended, by return or by exception, a hard reset
\* has been performed and the workspace is not in the stash-applied state.
C8_HardResetOnEveryExit ==
  spc \in {"returned", "raised"} => hard_reset /\ ~ws.applied

\* C9: check_baseline(rev) returns rev when rev is the current head;
\* otherwise it takes get_baseline(rev), or the first parent when that is
\* None (None when there is no parent), returns it when it is the head and
\* raises BaselineMismatchError when it is not.
C9_CheckBaseline ==
  bl.op = "check_baseline" =>
    IF bl.rev = head THEN bl.exc = "none" /\ bl.result = bl.rev
    ELSE LET got == GetBaseline(stash, refs, bl.rev)
             parents == Parents(ResolveRev(bl.rev))
             baseline == IF got # None THEN got
                         ELSE IF parents # <<>> THEN Head(parents)
                         ELSE None
         IN IF baseline = head
            THEN bl.exc = "none" /\ bl.result = baseline
            ELSE bl.exc = "BaselineMismatchError"

\* C10: get_baseline(rev) gives the recorded baseline_rev of the ledger
\* entry whose id is rev when there is one (also when a published ref
\* points at rev); else the baseline encoded in the first published ref
\* pointing at rev; else None.
C10_GetBaselinePriority ==
  bl.op = "get_baseline" =>
    LET x == ResolveRev(bl.rev)
        entries == {i \in 1..Len(stash) : ~stash[i].foreign /\ stash[i].sha = x}
        names == {n \in ExpRefNames : refs[n] = x}
    IN IF entries # {}
       THEN bl.result = stash[CHOOSE i \in entries : TRUE].baseline_rev
       ELSE IF names # {}
            THEN bl.result =
                   RefBaseline(CHOOSE n \in names : \A m \in names : n <= m)
            ELSE bl.result = None

C10_Witness ==
  /\ bl.op = "get_baseline"
  /\ bl.rev \in DOMAIN StashRevs(stash)
  /\ \E n \in ExpRefNames : refs[n] = bl.rev /\ RefBaseline(n) # bl.result
  /\ bl.result = StashRevs(stash)[bl.rev].baseline_rev

\* C11 as stated: get_branch_by_rev raises MultipleBranchError exactly when
\* two or more experiment branches contain rev and allow_multiple is false,
\* and in every other case returns a branch name.
C11_AlwaysOneBranch ==
  bl.op = "get_branch_by_rev" =>
    LET names == {n \in ExpRefNames : refs[n] = bl.rev}
    IN /\ bl.exc = "MultipleBranchError"
            <=> (Cardinality(names) >= 2 /\ ~bl.allow_multiple)
       /\ bl.exc # "MultipleBranchError" => bl.result \in ExpRefNames

\* C11 amended: get_branch_by_rev raises MultipleBranchError exactly when
\* two or more experiment branches contain rev and allow_multiple is false;
\* it returns None when no branch contains rev, and otherwise the first
\* branch that contains rev.
C11_BranchByRev ==
  bl.op = "get_branch_by_rev" =>
    LET names == {n \in ExpRefNames : refs[n] = bl.rev}
    IN /\ bl.exc = "MultipleBranchError"
            <=> (Cardinality(names) >= 2 /\ ~bl.allow_multiple)
       /\ bl.exc # "MultipleBranchError" =>
            /\ bl.exc = "none"
            /\ IF names = {} THEN bl.result = None
               ELSE bl.result = CHOOSE n \in names : \A m \in names : n <= m

C11_Witness ==
  /\ bl.op = "get_branch_by_rev"
  /\ bl.allow_multiple
  /\ Cardinality({n \in ExpRefNames : refs[n] = bl.rev}) >= 2
  /\ bl.result \in ExpRefNames

\* The experiment branches that contain the checkpoint commit resume
\* resolved.
ResumeBranches ==
  IF sargs.call.resume_rev = None THEN {}
  ELSE {n \in ExpRefNames : refs[n] = sargs.call.resume_rev}

FirstBranch(names) == CHOOSE n \in names : \A m \in names : n <= m

\* C12: a resume that returns has put one new entry on the ledger, for
\* the checkpoint commit.  Without params the entry's branch is the branch
\* of the checkpoint and no detach_rev was used; with params its branch is
\* None and staging detached at the checkpoint commit.  In both cases its
\* baseline_rev is the baseline of the checkpoint's branch.
C12_ResumeEntry ==
  (sargs.call.op = "resume" /\ spc = "returned") =>
    LET e == Head(stash)
        branch == FirstBranch(ResumeBranches)
    IN /\ stash = <<e>> \o sargs.ledger0
       /\ stash_rev = e.sha
       /\ e.rev = sargs.call.resume_rev
       /\ e.baseline_rev = RefBaseline(branch)
       /\ IF sargs.call.params = "given"
          THEN e.branch = None
               /\ sargs.args.detach_rev = sargs.call.resume_rev
          ELSE e.branch = branch /\ sargs.args.detach_rev = None

C12_Witness ==
  /\ sargs.call.op = "resume"
  /\ spc = "returned"
  /\ sargs.call.checkpoint_resume = LAST_CHECKPOINT
  /\ sargs.call.params = "absent"
  /\ Head(stash).branch \in ExpRefNames
  /\ Len(stash) = Len(sargs.ledger0) + 1

\* C13: a resume without params overrides of a checkpoint commit that two
\* or more branches contain raises MultipleBranchError, and an entry that
\* resume staged as extending a branch comes from a checkpoint commit that
\* exactly one branch contains.
C13_AmbiguousResumeRefused ==
  (sargs.call.op = "resume" /\ spc # "idle") =>
    /\ (sargs.call.params # "given" /\ Cardinality(ResumeBranches) >= 2)
         => (spc = "raised" /\ sexc = "MultipleBranchError")
    /\ (spc = "returned" /\ Head(stash).branch # None)
         => Cardinality(ResumeBranches) = 1

\* C14: a resume of LAST with no checkpoint ref recorded, or of a commit
\* that no branch contains, raises DvcException before anything is staged:
\* the ledger and the workspace are as they were.
C14_NotFoundBeforeStaging ==
  (/\ sargs.call.op = "resume"
   /\ spc # "idle"
   /\ \/ sargs.call.checkpoint_resume = LAST_CHECKPOINT
         /\ exec_checkpoint = None
      \/ sargs.call.resume_rev # None /\ ResumeBranches = {})
  => /\ spc = "raised"
     /\ sexc = "DvcException"
     /\ stash = sargs.ledger0
     /\ ws = sargs.ws0
     /\ workspace = None
     /\ ~hard_reset

C14_Witness ==
  /\ sargs.call.op = "resume"
  /\ spc = "raised"
  /\ sexc = "DvcException"
  /\ sargs.call.resume_rev # None
  /\ ResumeBranches = {}
  /\ ws.dirty

\* C15: the message _stash_msg formats for (rev, baseline_rev, name,
\* branch), with the driver's prefix, is parsed by stash_revs into the same
\* (rev, baseline_rev, name, branch).
C15_MsgRoundTrip ==
  msg.phase = "parsed" => msg.parsed = msg.input

\* The sequence s without the entries at the (0-based) indices of D.
RECURSIVE ExceptIndices(_, _, _)
ExceptIndices(s, D, i) ==
  IF i > Len(s) THEN <<>>
  ELSE (IF (i - 1) \in D THEN <<>> ELSE <<s[i]>>)
         \o ExceptIndices(s, D, i + 1)

\* C16: the indices reproduce drops are indices of the ledger listing read
\* when the call started, dropped highest first; the ledger afterwards is
\* the ledger of the start without the entries at those indices, every
\* other entry unchanged and in place.
C16_DescendingDrops ==
  pc = "returned" =>
    /\ \A i \in 1..(Len(dropped) - 1) : dropped[i] > dropped[i + 1]
    /\ Range(dropped) \subseteq
         {StashRevs(stash0)[r].index : r \in DOMAIN StashRevs(stash0)}
    /\ stash = ExceptIndices(stash0, Range(dropped), 1)

C16_Witness ==
  /\ pc = "returned"
  /\ Len(dropped) = 2
  /\ dropped[1] > dropped[2] + 1
  /\ Len(stash) = Len(stash0) - 2

\* C17: when the harvest publishes, without force, the result of a worker
\* one of whose refs exists on another commit, reproduce raises
\* CheckpointExistsError for a checkpoint ref and ExperimentExistsError for
\* any other ref, no ref changes and the unit gets no result; and a ref
\* that exists changes its target only when the worker returned force.
C17_DivergedRefKept ==
  [][/\ \A n \in ExpRefNames :
          (refs[n] # None /\ refs'[n] # refs[n])
            => (HarvestReady /\ out'[idx].force)
     /\ (/\ HarvestReady
         /\ idx \in harvested' \ harvested
         /\ out'[idx].kind = "ok"
         /\ ~out'[idx].force
         /\ Diverged(refs, idx, out'[idx]) # {})
        => /\ refs' = refs
           /\ exc' = IF out'[idx].checkpoint THEN "CheckpointExistsError"
                     ELSE "ExperimentExistsError"
           /\ pc' = "shutdown"
           /\ result' = result]_vars

C17_Witness ==
  /\ exc = "CheckpointExistsError"
  /\ idx \in harvested
  /\ ~out[idx].force
  /\ \E n \in out[idx].refs :
       refs[n] # None /\ refs[n] # ExpCommit(RevOf(idx))

\* C18: at most one process is inside new or reproduce at any time, and it
\* holds the lock: every push, drop, handoff-ref write and publish of a
\* call happens while no other process is inside a call.
C18_OneProcessInside ==
  /\ Cardinality(Inside) <= 1
  /\ \A p \in Inside : scm_lock = p
  /\ scm_lock # NoProc => scm_lock \in Inside

C18_Witness ==
  \E p, q, r \in Procs :
    /\ procs[p].state = "inside" /\ procs[p].op = "reproduce"
    /\ procs[p].at = 2
    /\ procs[q].state = "raised" /\ procs[q].exc = "LockError"
    /\ procs[r].state = "returned" /\ procs[r].op = "new"


\* ------------------------------------------------------- C19: params merge
\* The leaves of a params file: a path of keys and the scalar found there.
Leaves(f) ==
  {[path |-> <<k>>, v |-> f[k].v] :
     k \in {x \in DOMAIN f : f[x].kind = "scalar"}}
    \cup UNION {{[path |-> <<k, j>>, v |-> f[k].d[j]] : j \in DOMAIN f[k].d} :
                  k \in {x \in DOMAIN f : f[x].kind = "dict"}}

\* One path leads through, or to, the other.
Overlaps(p, q) ==
  /\ p[1] = q[1]
  /\ Len(p) = 2 /\ Len(q) = 2 => p[2] = q[2]

\* got is orig with over merged on top, leaf by leaf: every overridden leaf
\* has the override's value, every leaf the override does not touch keeps
\* its value, and there is nothing else.
MergedOnTop(orig, over, got) ==
  Leaves(got) =
    Leaves(over) \cup
      {l \in Leaves(orig) :
         \A o \in Leaves(over) : ~Overlaps(l.path, o.path)}

\* A staging with params has returned.
StagedWithParams == spc = "returned" /\ sargs.args.params

OneNewEntry ==
  /\ Len(stash) = Len(sargs.ledger0) + 1
  /\ SubSeq(stash, 2, Len(stash)) = sargs.ledger0

\* C19 as stated: a staging with params overrides leaves exactly one new
\* ledger entry, its baseline_rev is the head before staging, and its copy
\* of the params file is the original with the overrides deep-merged.
C19_ParamsStaged ==
  StagedWithParams =>
    /\ OneNewEntry
    /\ stash[1].baseline_rev = sargs.ws0.at
    /\ MergedOnTop(pfile.orig, pfile.override, pfile.captured)

\* C19 amended: the baseline_rev is the head before staging when the call
\* names no baseline_rev, detach_rev or branch of its own.
C19_ParamsStagedAtHead ==
  StagedWithParams =>
    /\ OneNewEntry
    /\ (sargs.args.baseline_rev = None /\ sargs.args.detach_rev = None
          /\ sargs.args.branch = None)
         => stash[1].baseline_rev = sargs.ws0.at
    /\ MergedOnTop(pfile.orig, pfile.override, pfile.captured)

\* A nested mapping was overridden in part, at the head.
C19_Witness ==
  /\ StagedWithParams
  /\ sargs.args.baseline_rev = None
  /\ sargs.args.detach_rev = None
  /\ sargs.args.branch = None
  /\ stash[1].baseline_rev = sargs.ws0.at
  /\ \E k \in DOMAIN pfile.orig \cap DOMAIN pfile.override :
       /\ pfile.orig[k].kind = "dict"
       /\ pfile.override[k].kind = "dict"
       /\ DOMAIN pfile.override[k].d # DOMAIN pfile.orig[k].d
       /\ pfile.captured # pfile.orig


\* C20: within a reproduce call every unit moves only along
\* STAGED -> DISPATCHED -> one of SUCCEEDED, FAILED, CANCELLED: a unit in a
\* terminal state never changes state again, and no unit goes back from
\* DISPATCHED to STAGED.
C20_UnitsMoveForward ==
  [][\A u \in Units :
       \/ UnitState(u)' = UnitState(u)
       \/ UnitState(u) = "STAGED" /\ UnitState(u)' = "DISPATCHED"
       \/ UnitState(u) = "DISPATCHED" /\ UnitState(u)' \in Terminal]_vars

\* An interrupted batch is over: one unit had finished and was harvested,
\* the other was cancelled before it started.
C20_Witness ==
  /\ pc = "raised"
  /\ interrupted
  /\ \E u, v \in Units :
       /\ UnitState(u) \in {"SUCCEEDED", "FAILED"}
       /\ u \in harvested
       /\ UnitState(v) = "CANCELLED"


\* C21: the coordinator calls the Ref Publisher (_collect_executor) only
\* when every unit of the batch is terminal, also after an interrupt.
C21_PublishAfterAllTerminal ==
  [][(harvested' # harvested /\ out[idx].kind = "ok") => AllDone]_vars


\* C22: on an interrupt every worker the handler finds running has a
\* reported process id at hand, and the signal goes to that unit's own
\* process id: only units that reported one are ever signalled.
C22_RunningHasPid ==
  /\ (pc = "signal" /\ idx \in Units /\ fut[idx] = "running")
       => idx \in pids
  /\ signalled \subseteq reported


\* The ids of the experiment entries of ledger s.
LedgerShas(s) == {s[i].sha : i \in {j \in 1..Len(s) : ~s[j].foreign}}

\* C23: with revs omitted the working set is every ledger entry; with revs
\* given it is those revs, a rev that is a ledger entry's id with that
\* entry's rev, baseline_rev, branch and name, any other rev as an ad hoc
\* unit with itself as rev and baseline, no branch and no name.  An ad hoc
\* unit causes no drop: every entry reproduce dropped is a unit's entry.
C23_WorkingSet ==
  pc # "idle" =>
    /\ ~revs_arg.given =>
         /\ InputRevs = LedgerShas(stash0)
         /\ Len(to_run) = Cardinality(LedgerShas(stash0))
    /\ revs_arg.given =>
         /\ Len(to_run) = Len(revs_arg.revs)
         /\ \A u \in Units : to_run[u].input_rev = revs_arg.revs[u]
    /\ \A u \in Units :
         LET unit == to_run[u]
             r == unit.input_rev
         IN IF r \in LedgerShas(stash0)
            THEN \E i \in 1..Len(stash0) :
                   /\ stash0[i].sha = r
                   /\ unit.rev = stash0[i].rev
                   /\ unit.baseline_rev = stash0[i].baseline_rev
                   /\ unit.branch = stash0[i].branch
                   /\ unit.name = stash0[i].name
            ELSE /\ unit.rev = r
                 /\ unit.baseline_rev = r
                 /\ unit.branch = None
                 /\ unit.name = None
    /\ pc = "returned" =>
         \A i \in 1..Len(stash0) :
           stash0[i] \notin Range(stash) =>
             stash0[i].sha \in InputRevs \cap LedgerShas(stash0)

\* A call over a ledger entry and an ad hoc rev returned, without
\* keep_stash, and the entry was dropped.
C23_Witness ==
  /\ pc = "returned"
  /\ revs_arg.given
  /\ ~keep_stash
  /\ \E u, v \in Units :
       /\ to_run[u].input_rev \in LedgerShas(stash0)
       /\ to_run[v].input_rev \notin LedgerShas(stash0)
  /\ Len(stash) = Len(stash0) - 1


\* The foreign entries of ledger s, in ledger order.
ForeignOf(s) == SelectSeq(s, LAMBDA e : e.foreign)

\* C24: entries whose message does not match the grammar are not in the
\* ledger listing, so they are never units of a call over the whole
\* ledger, and reproduce never drops them: at every moment of a call the
\* stash holds the foreign entries it held at the start, in the same order.
C24_ForeignKept ==
  pc # "idle" =>
    /\ \A i \in 1..Len(stash0) :
         stash0[i].foreign <=> stash0[i].sha \notin DOMAIN stash_revs
    /\ \A sha \in DOMAIN stash_revs :
         stash0[stash_revs[sha].index + 1].sha = sha
    /\ ~revs_arg.given =>
         \A u \in Units, i \in 1..Len(stash0) :
           to_run[u].input_rev = stash0[i].sha => ~stash0[i].foreign
    /\ ForeignOf(stash) = ForeignOf(stash0)

\* Experiment entries between two foreign entries, or around one, were
\* dropped and only the foreign entries are left.
C24_Witness ==
  /\ pc = "returned"
  /\ Len(ForeignOf(stash0)) = 2
  /\ stash0[1].foreign
  /\ Len(stash) < Len(stash0)
  /\ stash = ForeignOf(stash0)


\* C25: a staging that finds the packed-arguments file present and tracked
\* records the counter it read plus one (1 when there was none or the file
\* could not be read); any other staging records no counter; and over
\* successive stagings of the first kind the recorded counter strictly
\* increases.
C25_ExtraIncrements ==
  LET R == args_file.recorded
      counted(i) == R[i].found.kind # "absent" /\ R[i].tracked
  IN /\ \A i \in 1..Len(R) :
          IF counted(i)
          THEN /\ R[i].written.kind = "counter"
               /\ R[i].written.extra =
                    IF R[i].found.kind = "counter"
                    THEN R[i].found.extra + 1 ELSE 1
          ELSE R[i].written.kind = "nocounter"
     /\ \A i, j \in 1..Len(R) :
          (i < j /\ counted(i) /\ counted(j))
            => R[i].written.extra < R[j].written.extra


\* C26: whenever check_baseline(rev) returns, what it returns is the
\* repository's current head, be it rev itself or the baseline resolved.
C26_ReturnsHead ==
  (bl.op = "check_baseline" /\ bl.exc = "none") => bl.result = head

\* check_baseline returned for a rev that is not the head.
C26_Witness ==
  /\ bl.op = "check_baseline"
  /\ bl.exc = "none"
  /\ bl.rev # head
  /\ bl.result = head


\* C27: over any interleaving of reproduce_one(queue=False) and reproduce
\* calls of concurrent processes, no staged entry is handed to a worker
\* twice.
C27_DispatchedOnce ==
  \A i, j \in 1..Len(dispatched) : dispatched[i] = dispatched[j] => i = j


C29_PublishErrorDropsNothing ==
  (pc = "raised" /\ exc \in PublishErrors) =>
    /\ stash = stash0
    /\ dropped = <<>>

\* The second unit's publish raised after the first unit's result had been
\* published; the first unit's entry is still in the ledger.
C29_Witness ==
  /\ pc = "raised"
  /\ exc \in PublishErrors
  /\ \E u \in Units :
       /\ u < idx
       /\ Succeeded(u)
       /\ RevOf(u) \in DOMAIN result
       /\ \E i \in 1..Len(stash) : stash[i].sha = RevOf(u)


\* _reproduce has been left: by its return or by an exception.
ReproduceLeft ==
  \/ pc \in {"prune", "returned"}
  \/ pc = "raised" /\ exc # "ExecutorInitError"

AllTerminal == \A u \in Units : UnitState(u) \in Terminal

\* C30: with workers that eventually exit, also after the forwarded
\* interrupt, a call that has dispatched its batch eventually ends, with
\* every unit in a terminal state; and with no interrupt it is not left
\* before every unit is terminal.
C30_EndsAllTerminal ==
  /\ (pc = "wait") ~> (pc \in {"returned", "raised"} /\ AllTerminal)
  /\ []((ReproduceLeft /\ ~interrupted) => AllTerminal)

\* A batch of two ended after an interrupt, one unit cancelled and one
\* finished.
C30_Witness ==
  /\ pc = "raised"
  /\ interrupted
  /\ Len(to_run) = 2
  /\ AllTerminal
  /\ \E u, v \in Units : fut[u] = "cancelled" /\ fut[v] = "finished"
  /\ signalled = {}

====
